---- MODULE Spec2Model ----
(***************************************************************************)
(* State-machine model of the frame relay of NassCode/dlc:                 *)
(*   - StreamingServer            (src/desktop-app/stream-server.js)       *)
(*   - OptimizedVirtualCameraManager                                       *)
(*                                (src/debug-streaming-flow.js:77-485)     *)
(* JavaScript runs one callback at a time, so every action below is one    *)
(* run-to-completion segment: a synchronous method, an event handler, or   *)
(* the part of an async method between two awaits that really suspend.     *)
(***************************************************************************)
EXTENDS Integers, Sequences, FiniteSets, TLC

(* ---------------------------- bounds ----------------------------------- *)
MaxClients == 2        \* viewer transports that ever connect to a server driven directly
MaxViewers == 1        \* viewer transports that ever connect to the manager's server
MaxBroadcast == 3      \* broadcastFrame calls in one behaviour
MaxBytes == 2          \* distinct frame payloads
MaxTicks == 2          \* clock advances in one behaviour
StartTime == 5000      \* Date.now() when the objects are constructed

MaxSubmit == 2         \* sendFrame calls on an active manager in one behaviour
MaxSlots == 2          \* async calls that may be in flight together
MaxBusyPorts == 1      \* candidate ports another listener may hold
MaxRateTicks == 9      \* waits between the frames of a paced stream
SlowGap == 33          \* ms between the frames of a paced stream at first
FastGap == 5           \* ms between its frames once it has sped up
PhaseFrames == 5       \* frames in the slow and in the fast phase of a paced stream
SteadyFrames == 1000   \* frames of a steady stream
MaxPending == 2        \* sockets and reconnect timers of one viewer page
MaxFrames == 2         \* messages a viewer page receives

(* ------------------------ program constants ---------------------------- *)
FpsWindowMs == 1000    \* updateFrameStats: length of the fps window
StatsEvery == 30       \* broadcastFrame: stats message every 30th frame
DefaultPort == 8080    \* first candidate port
NumPorts == 5          \* startStreamingServer: ports 8080..8084
DefaultFps == 30       \* constructor: this.fps and performance.adaptiveFps
MinAdaptiveFps == 15   \* updatePerformanceMetrics: lower clamp
MaxAdaptiveFps == 60   \* updatePerformanceMetrics: upper clamp
maxBufferSize == 3     \* constructor: this.maxBufferSize
MinFps == 10           \* setFPS: lower clamp
MaxFps == 60           \* setFPS: upper clamp
EphemeralPort == 49152 \* the port listen(0) is given
reconnectDelay == 2000        \* CleanStreamViewer.reconnectDelay, ms
maxReconnectAttempts == 10    \* CleanStreamViewer.maxReconnectAttempts

DefaultResolution == <<640, 480>>   \* constructor: frameWidth, frameHeight

Clients == 1..(IF MaxViewers > MaxClients THEN MaxViewers ELSE MaxClients)
Direct == 1..MaxClients
Viewers == 1..MaxViewers
Slots == 1..MaxSlots
CamTypes == {"node-virtualcam", "obs-optimized", "stream-only"}
FrameKinds == {"dataurl", "buffer", "nocomma", "other"}
Payloads == 1..MaxBytes

\* A frame is the Buffer handed to broadcastFrame: seq is the ordinal of the
\* broadcastFrame call that introduced it (its identity), bytes its content.
NoFrame == [seq |-> 0, bytes |-> 0]

VARIABLES
    now,          \* Date.now()
    ticks,        \* number of clock advances so far (bounds the clock)
    srvState,     \* the StreamingServer's http server: none/created/pending/listening/closed
    port,         \* StreamingServer.port
    clients,      \* StreamingServer.clients
    latestFrame,  \* StreamingServer.latestFrame (NoFrame is null)
    frameStats,   \* StreamingServer.frameStats
    readyState,   \* readyState of every viewer transport
    sent,         \* per transport: the seq of the last frame send() was called with
    bcasts,       \* number of broadcastFrame calls so far
    last,         \* the step just taken: its name and, for a call that returned, its result
    virtualCamType,   \* OptimizedVirtualCameraManager.virtualCamType
    virtualCam,       \* this.virtualCam is not null
    drvRunning,       \* the native driver behind virtualCam has been started
    isActive,         \* this.isActive
    streamingServer,  \* this.streamingServer is not null
    fps,              \* this.fps
    performance,      \* this.performance
    frameBuffer,      \* this.frameBuffer: a Map from frame id to frame
    slots,            \* the async calls in flight, each suspended at an await
    started,          \* start() has been called at least once
    resolution,       \* <<this.frameWidth, this.frameHeight>>
    host,             \* what the machine offers to the backend detection
    page,             \* the CleanStreamViewer of one browser tab (NoPage: no tab)
    drvConfig         \* the options the native driver was last constructed with

srvVars == <<srvState, port, clients, latestFrame, frameStats, readyState, sent, bcasts>>
mgrVars == <<virtualCamType, host, page, virtualCam, drvRunning, isActive, streamingServer, fps,
             performance, frameBuffer, resolution>>
vars == <<now, ticks, srvState, port, clients, latestFrame, frameStats, readyState,
          sent, bcasts, last, virtualCamType, virtualCam, drvRunning, isActive,
          streamingServer, fps, performance, frameBuffer, slots, started,
          resolution, host, page, drvConfig>>

\* The record of a step. step names the call that returned in this step
\* ("other" when none did); success/skipped/note/urlPort are the fields of
\* its result object, threw says that an exception escaped to the caller
\* instead, rel what a stop() released, bf what a broadcastFrame did, arg the
\* arguments of a setResolution call or the value a backend detection gave.
\* What a broadcastFrame call did: the registry before the call (pre) and as
\* the loop left it (iter), the transports send() was called on (tried), the
\* collected dead clients, the OPEN transports whose send() threw (sendThrew,
\* taken from the environment, not from the loop), the receivers of a stats
\* message, the frame that went out, and whether an exception escaped.
NoBroadcast == [pre |-> {}, iter |-> {}, tried |-> {}, deadClients |-> {},
                sendThrew |-> {}, stats |-> {}, threw |-> FALSE, frame |-> NoFrame]

NoRel == [drvCalled |-> FALSE, drvThrew |-> FALSE, srvCalled |-> FALSE, srvThrew |-> FALSE]
Step(name) == [step |-> name, success |-> FALSE, skipped |-> FALSE, threw |-> FALSE,
               note |-> "", urlPort |-> 0, rel |-> NoRel, bf |-> NoBroadcast,
               arg |-> <<>>]
Returned(name, ok, why) == [Step(name) EXCEPT !.success = ok, !.note = why]

(* ------------------- StreamingServer: constructor ---------------------- *)
NewFrameStats(t) == [fps |-> 0, frameCount |-> 0, lastFpsUpdate |-> t]

(* ------------------- StreamingServer.updateFrameStats ------------------ *)
\* Variant: the counter is incremented but the fps window is never closed.
CountOnly(fs, t) == [fs EXCEPT !.frameCount = @ + 1]

updateFrameStats(fs, t) ==
    LET n == fs.frameCount + 1 IN
    IF t - fs.lastFpsUpdate >= FpsWindowMs
    THEN [fps |-> n, frameCount |-> 0, lastFpsUpdate |-> t]
    ELSE [fs EXCEPT !.frameCount = n]

(* ----------- one client.send(frameBuffer) inside try/catch ------------- *)
\* fail is the set of transports whose send() throws in this call.
\* "sent": send returned; "caught": it threw and the catch block ran;
\* "thrown": it threw and nothing caught it.
\* Variant: send() is called outside any try block.
SendUncaught(client, fail) == IF client \in fail THEN "thrown" ELSE "sent"

TrySend(client, fail) == IF client \in fail THEN "caught" ELSE "sent"

(* ------------- broadcastFrame: the for..of over this.clients ----------- *)
RECURSIVE SendLoop(_, _, _)
SendLoop(todo, fail, acc) ==
    IF todo = {} \/ acc.threw THEN acc
    ELSE LET client == CHOOSE c \in todo : TRUE
             out == TrySend(client, fail)
             next ==
                 IF readyState[client] = "OPEN"
                 THEN CASE out = "sent" ->
                             [acc EXCEPT !.tried = @ \cup {client},
                                         !.delivered = @ \cup {client}]
                        [] out = "caught" ->
                             [acc EXCEPT !.tried = @ \cup {client},
                                         !.deadClients = @ \cup {client}]
                        [] OTHER ->
                             [acc EXCEPT !.tried = @ \cup {client}, !.threw = TRUE]
                 ELSE [acc EXCEPT !.deadClients = @ \cup {client}]
         IN SendLoop(todo \ {client}, fail, next)

\* The registry as the loop leaves it, the collected dead clients, the
\* transports on which send() was called and those on which it returned.
\* Variant: the loop ends at the first send() that throws, and the
\* transports it has not reached get nothing.
BreakOnFailure(reg, fail) ==
    LET it == SendLoop(reg, fail, [registry |-> reg, deadClients |-> {}, tried |-> {},
                                   delivered |-> {}, threw |-> FALSE])
    IN  IF it.tried \cap fail = {} THEN it
        ELSE [it EXCEPT !.tried = it.tried \cap fail, !.delivered = {}]

IterateClients(reg, fail) ==
    SendLoop(reg, fail, [registry |-> reg, deadClients |-> {}, tried |-> {},
                         delivered |-> {}, threw |-> FALSE])

(* ------------- broadcastFrame: "Clean up dead connections" ------------- *)
\* Variant: the collected clients are never deleted.
KeepDead(reg, deadClients) == reg

CleanUp(reg, deadClients) == reg \ deadClients

(* ------------------- StreamingServer.broadcastStats -------------------- *)
\* One client.send(statsData) inside try/catch; statsFail is the set of
\* transports whose send() throws.
TrySendStats(client, statsFail) == IF client \in statsFail THEN "caught" ELSE "sent"

broadcastStats(reg, statsFail) ==
    [receivers |-> {c \in reg : readyState[c] = "OPEN"
                                /\ TrySendStats(c, statsFail) = "sent"},
     threw |-> \E c \in reg : readyState[c] = "OPEN"
                              /\ TrySendStats(c, statsFail) = "thrown"]

(* ------------------- StreamingServer.broadcastFrame -------------------- *)
\* this.latestFrame = frameBuffer is the first statement, before the early
\* return on an empty registry.
\* Variant: the early return on an empty registry comes first.
KeepWhenEmpty(old, frame, reg) == IF reg = {} THEN old ELSE frame

SetLatest(old, frame, reg) == frame

\* client.send(frameBuffer): what goes out is the argument of this call,
\* whatever the slot held before the call.
\* Variants: the frame held before the call goes out again; the first frame
\* of the stream goes out again.
HeldFrame(frame, held) == IF held = NoFrame THEN frame ELSE held
ReplayFirst(frame, held) == [frame EXCEPT !.seq = 1]

Outgoing(frame, held) == frame

StatsDue(fs) == fs.frameCount % StatsEvery = 0

\* What the call does to the registry and the transports.
BroadcastOutcome(frame, fail, statsFail) ==
    LET fs == updateFrameStats(frameStats, now)
        it == IterateClients(clients, fail)
        reg == IF it.threw THEN it.registry ELSE CleanUp(it.registry, it.deadClients)
        doStats == ~it.threw /\ StatsDue(fs)
        st == broadcastStats(reg, statsFail)
    IN  IF clients = {}
        THEN [NoBroadcast EXCEPT !.frame = frame]
        ELSE [pre |-> clients, iter |-> it.registry, tried |-> it.tried,
              deadClients |-> it.deadClients,
              sendThrew |-> {c \in clients \cap fail : readyState[c] = "OPEN"},
              stats |-> IF doStats THEN st.receivers ELSE {},
              threw |-> it.threw \/ (doStats /\ st.threw),
              frame |-> Outgoing(frame, latestFrame)]

broadcastFrame(frame, fail, statsFail) ==
    LET it == IterateClients(clients, fail)
    IN  /\ latestFrame' = SetLatest(latestFrame, frame, clients)
        /\ frameStats' = updateFrameStats(frameStats, now)
        /\ bcasts' = bcasts + 1
        /\ IF clients = {}
           THEN /\ clients' = clients
                /\ sent' = sent
           ELSE /\ clients' = IF it.threw THEN it.registry
                              ELSE CleanUp(it.registry, it.deadClients)
                /\ sent' = [c \in Clients |->
                              IF c \in it.tried THEN Outgoing(frame, latestFrame).seq
                              ELSE sent[c]]

(* ------------------- StreamingServer.sendFrameToClient ----------------- *)
\* try { if (OPEN) client.send(frame) } catch { this.clients.delete(client) }
\* state is the transport's readyState, throws whether its send() throws.
\* Result: the registry after the call and whether send() was called.
sendFrameToClient(reg, client, state, throws) ==
    IF state # "OPEN"
    THEN [registry |-> reg, tried |-> {}, deadClients |-> {}]
    ELSE IF throws
    THEN [registry |-> reg \ {client}, tried |-> {client}, deadClients |-> {client}]
    ELSE [registry |-> reg, tried |-> {client}, deadClients |-> {}]

(* --------------- wsServer.on('connection') handler --------------------- *)
\* The 'connection' event hands over a transport whose readyState is OPEN.
\* throws: the late-join send() throws.
\* Variant: the handler only registers the viewer.
NoLateJoin(reg, client, latest, throws) ==
    [registry |-> reg, tried |-> {}, deadClients |-> {}]

LateJoin(reg, client, latest, throws) ==
    IF latest # NoFrame
    THEN sendFrameToClient(reg, client, "OPEN", throws)
    ELSE [registry |-> reg, tried |-> {}, deadClients |-> {}]

OnConnection(client, throws) ==
    LET r == LateJoin(clients \cup {client}, client, latestFrame, throws)
    IN  /\ srvState = "listening"
        /\ readyState[client] = "NONE"
        /\ (throws => latestFrame # NoFrame)
        /\ readyState' = [readyState EXCEPT ![client] = "OPEN"]
        /\ clients' = r.registry
        /\ sent' = [sent EXCEPT ![client] =
                       IF client \in r.tried THEN latestFrame.seq ELSE @]
        /\ last' = [Step("connection") EXCEPT
                       !.bf = [NoBroadcast EXCEPT
                                 !.pre = clients, !.iter = {client},
                                 !.tried = r.tried, !.deadClients = r.deadClients,
                                 !.sendThrew = IF throws THEN {client} ELSE {},
                                 !.frame = IF r.tried = {} THEN NoFrame
                                           ELSE latestFrame]]
        /\ UNCHANGED <<srvState, port, latestFrame, frameStats, bcasts>>

Connect(client) ==
    /\ \E throws \in BOOLEAN : OnConnection(client, throws)
    /\ UNCHANGED <<now, ticks, mgrVars, slots, started, drvConfig>>

(* ------------------ transport events of one viewer --------------------- *)
\* this.clients.delete(ws) on a Set.
\* Variant: the registry is an array and the handler splices at indexOf,
\* which removes the last entry when the transport is not in it.
SpliceAtIndex(reg, client) ==
    IF client \in reg \/ reg = {} THEN reg \ {client}
    ELSE reg \ {CHOOSE c \in reg : \A d \in reg : d <= c}

\* Variant: the handler leaves the transport in the registry.
KeepRegistered(reg, client) == reg

Deregister(reg, client) == reg \ {client}

\* The peer starts the closing handshake: no handler of the server runs yet.
PeerClosing(client) ==
    /\ readyState[client] = "OPEN"
    /\ readyState' = [readyState EXCEPT ![client] = "CLOSING"]
    /\ last' = Step("other")
    /\ UNCHANGED <<now, ticks, srvState, port, clients, latestFrame, frameStats,
                   sent, bcasts, mgrVars, slots, started, drvConfig>>

\* ws.on('error'): the transport fails and the handler deletes it.
OnError(client) ==
    /\ readyState[client] = "OPEN"
    /\ readyState' = [readyState EXCEPT ![client] = "CLOSING"]
    /\ clients' = Deregister(clients, client)
    /\ last' = Step("other")
    /\ UNCHANGED <<now, ticks, srvState, port, latestFrame, frameStats,
                   sent, bcasts, mgrVars, slots, started, drvConfig>>

\* ws.on('close'): the transport is closed and the handler deletes it.
OnClose(client) ==
    /\ readyState[client] \in {"OPEN", "CLOSING"}
    /\ readyState' = [readyState EXCEPT ![client] = "CLOSED"]
    /\ clients' = Deregister(clients, client)
    /\ last' = Step("other")
    /\ UNCHANGED <<now, ticks, srvState, port, latestFrame, frameStats,
                   sent, bcasts, mgrVars, slots, started, drvConfig>>

(* ----------------------------- the clock ------------------------------- *)
Tick(d) ==
    /\ ticks < MaxTicks
    /\ now' = now + d
    /\ ticks' = ticks + 1
    /\ last' = Step("other")
    /\ UNCHANGED <<srvVars, mgrVars, slots, started, drvConfig>>

(* ------------------------- async call slots ---------------------------- *)
IdleSlot == [op |-> "idle", pc |-> "", idx |-> 0, mine |-> FALSE, rel |-> NoRel]
Waiting(o, where, i, r) == [op |-> o, pc |-> where, idx |-> i, mine |-> TRUE, rel |-> r]

\* A new call takes the lowest free slot (slots are anonymous).
FreeSlot(s) ==
    /\ slots[s].op = "idle"
    /\ \A t \in Slots : t < s => slots[t].op # "idle"

\* A StreamingServer object that is replaced by a new one is no longer the
\* one the server variables describe: the calls that await it lose it.
Disown(sl) == [t \in Slots |-> [sl[t] EXCEPT !.mine = FALSE]]

(* ------------------- new StreamingServer(port) ------------------------- *)
\* this.port = port || 8080
ServerPort(p) == IF p = 0 THEN DefaultPort ELSE p

NewServerVars(p, state) ==
    /\ srvState' = state
    /\ port' = ServerPort(p)
    /\ clients' = {}
    /\ latestFrame' = NoFrame
    /\ frameStats' = NewFrameStats(now)
    /\ UNCHANGED <<readyState, sent, bcasts>>

(* ------------------- StreamingServer.start: the listen callback -------- *)
\* server.address().port once listen(requested) has bound the socket: the
\* requested port, or the one the system has picked when 0 was requested.
ActualPort(requested) == IF requested = 0 THEN EphemeralPort ELSE requested

\* this.port = actualPort
\* Variant: the callback stores the preferred port.
StoresPreferred(requested, actual) == DefaultPort

AdoptPort(requested, actual) == actual

(* ------------------- StreamingServer.getStatus ------------------------- *)
\* this.server && this.server.listening
IsRunning == srvState = "listening"

ServerStatus == [isRunning |-> IsRunning, port |-> port,
                 clients |-> Cardinality(clients), fps |-> frameStats.fps]

(* ------------------- StreamingServer.stop, synchronous part ------------ *)
\* client.close() on every registered transport, clients.clear(),
\* wsServer.close(), server.close(callback).
\* Variant: the registry is cleared without closing the transports.
LeaveOpen(reg) == readyState

CloseAll(reg) == [c \in Clients |->
                    IF c \in reg /\ readyState[c] = "OPEN" THEN "CLOSING" ELSE readyState[c]]

ServerStopSync ==
    /\ readyState' = CloseAll(clients)
    /\ clients' = {}
    /\ srvState' = IF srvState = "listening" THEN "closing" ELSE srvState
    /\ UNCHANGED <<port, latestFrame, frameStats, sent, bcasts>>

\* server.close(callback): the callback runs once no connection is left.
AllTransportsGone == \A c \in Clients : readyState[c] \in {"NONE", "CLOSED"}

(* --------------- OptimizedVirtualCameraManager: frame path ------------- *)
\* now - lastFrameTime < (1000 / adaptiveFps) * 0.8
\* Variants: the whole target interval must have elapsed; nothing is skipped.
NeverSkip(t, perf) == FALSE
SkipBelowInterval(t, perf) == (t - perf.lastFrameTime) * perf.adaptiveFps < 1000

ShouldSkip(t, perf) == (t - perf.lastFrameTime) * perf.adaptiveFps < 800

\* The conversion of imageData to a Buffer (sendFrame, lines 339-352).
Decode(kind) ==
    CASE kind = "dataurl" -> "buffer"
      [] kind = "buffer" -> "buffer"
      [] kind = "nocomma" -> "throws"
      [] OTHER -> "invalid"

Oldest(buf) == CHOOSE e \in buf : \A o \in buf : e.id <= o.id

updateFrameBuffer(buf, id, frame) ==
    LET b1 == {e \in buf : e.id # id} \cup {[id |-> id, frame |-> frame]}
    IN IF Cardinality(b1) > maxBufferSize THEN b1 \ {Oldest(b1)} ELSE b1

Clamp(lo, hi, x) == IF x < lo THEN lo ELSE IF x > hi THEN hi ELSE x
Min(a, b) == IF a < b THEN a ELSE b

\* Math.floor(1000 / (processingTime * 1.5)); 1000/0 is Infinity.
FloorRate(pt) ==
    IF pt > 0 THEN 2000 \div (3 * pt)
    ELSE 0 - ((2000 + 3 * (0 - pt) - 1) \div (3 * (0 - pt)))

\* Variant: the frame is measured to have taken SlowGap ms to process.
MeasuresProcessing(perf, t, cfgFps) ==
    [perf EXCEPT !.adaptiveFps =
        Clamp(MinAdaptiveFps, MaxAdaptiveFps,
              (9 * perf.adaptiveFps + Min(cfgFps, FloorRate(SlowGap)) + 5) \div 10)]

updatePerformanceMetrics(perf, t, cfgFps) ==
    LET processingTime == t - perf.lastFrameTime
        targetFps == IF processingTime = 0 THEN cfgFps
                     ELSE Min(cfgFps, FloorRate(processingTime))
        smooth == (9 * perf.adaptiveFps + targetFps + 5) \div 10
    IN [perf EXCEPT !.adaptiveFps = Clamp(MinAdaptiveFps, MaxAdaptiveFps, smooth)]

\* sendFrame never assigns this.isActive, whatever its outcome.
\* Variant: the catch block of sendFrame deactivates the manager.
InactiveAfterThrow(active, outcome) == active /\ outcome # "threw"

ActiveAfterSendFrame(active, outcome) == active

\* sendFrame on a manager that is not active: the early return of lines
\* 322-324, before anything is counted.
\* Variant: the call is counted before the test.
CountedWhenInactive ==
    /\ last' = Returned("sendFrame", FALSE, "notActive")
    /\ performance' = [performance EXCEPT !.framesReceived = @ + 1]
    /\ UNCHANGED <<srvVars, isActive, frameBuffer>>

NotActiveFrame ==
    /\ last' = Returned("sendFrame", FALSE, "notActive")
    /\ UNCHANGED <<srvVars, isActive, performance, frameBuffer>>

\* The counters a skipped frame leaves: the return of line 333 comes before
\* lastFrameTime = now (perf1 is the record after framesReceived++).
\* Variant: the time is stamped before the rate test.
StampedSkip(perf1, t) == [perf1 EXCEPT !.lastFrameTime = t]

AfterSkip(perf1, t) == perf1

SendFrame(kind, b, fail, statsFail) ==
    /\ UNCHANGED <<now, ticks, virtualCamType, host, page, resolution, virtualCam, drvRunning,
                   streamingServer, fps, slots, started, drvConfig>>
    /\ IF ~isActive
       THEN NotActiveFrame
       ELSE LET perf1 == [performance EXCEPT !.framesReceived = @ + 1]
                perf2 == [perf1 EXCEPT !.lastFrameTime = now]
                frame == [seq |-> perf1.framesReceived, bytes |-> b]
            IN
            IF ShouldSkip(now, perf1)
            THEN /\ last' = [Returned("sendFrame", TRUE, "skipped") EXCEPT !.skipped = TRUE]
                 /\ performance' = AfterSkip(perf1, now)
                 /\ isActive' = ActiveAfterSendFrame(isActive, "skipped")
                 /\ UNCHANGED <<srvVars, frameBuffer>>
            ELSE IF Decode(kind) = "invalid"
            THEN /\ last' = Returned("sendFrame", FALSE, "invalidFormat")
                 /\ performance' = perf2
                 /\ isActive' = ActiveAfterSendFrame(isActive, "invalid")
                 /\ UNCHANGED <<srvVars, frameBuffer>>
            ELSE IF Decode(kind) = "throws"
            THEN /\ last' = Returned("sendFrame", FALSE, "error")
                 /\ performance' = [perf2 EXCEPT !.framesDropped = @ + 1]
                 /\ isActive' = ActiveAfterSendFrame(isActive, "threw")
                 /\ UNCHANGED <<srvVars, frameBuffer>>
            ELSE LET out == IF streamingServer
                            THEN BroadcastOutcome(frame, fail, statsFail)
                            ELSE NoBroadcast
                 IN
                 /\ frameBuffer' = updateFrameBuffer(frameBuffer, now, frame)
                 /\ IF streamingServer
                    THEN /\ broadcastFrame(frame, fail, statsFail)
                         /\ UNCHANGED <<srvState, port, readyState>>
                    ELSE UNCHANGED srvVars
                 /\ IF out.threw
                    THEN /\ last' = [Returned("sendFrame", FALSE, "error")
                                       EXCEPT !.bf = out]
                         /\ performance' = [perf2 EXCEPT !.framesDropped = @ + 1]
                         /\ isActive' = ActiveAfterSendFrame(isActive, "threw")
                    ELSE /\ last' = [Returned("sendFrame", TRUE, "forwarded")
                                       EXCEPT !.bf = out]
                         /\ performance' = updatePerformanceMetrics(perf2, now, fps)
                         /\ isActive' = ActiveAfterSendFrame(isActive, "forwarded")

(* --------------- OptimizedVirtualCameraManager.start ------------------- *)
\* The result object built after startStreamingServer() has returned:
\* ss is this.streamingServer (not null), p its getStatus().port.
\* Variant: the URL is built from the preferred port.
ReportsPreferred(type, ss, p) ==
    [Returned("start", TRUE, "started") EXCEPT !.urlPort = DefaultPort]

StartResult(type, ss, p) ==
    IF type = "node-virtualcam"
    THEN [Returned("start", TRUE, "started") EXCEPT !.urlPort = IF ss THEN p ELSE 0]
    ELSE IF ss
    THEN [Returned("start", TRUE, "started") EXCEPT !.urlPort = p]
    ELSE Returned("start", FALSE, "error")

\* The options of new VirtualCam({width, height, fps, ...}).
NoConfig == [width |-> 0, height |-> 0, fps |-> 0]
DriverOptions == [width |-> resolution[1], height |-> resolution[2], fps |-> fps]

\* start() on an active manager: the early return of lines 140-142.
\* Variant: the call replaces the server by a new one on the next port.
StartAgain ==
    /\ NewServerVars(port + 1, "listening")
    /\ last' = Returned("start", TRUE, "already")
    /\ UNCHANGED <<mgrVars, slots>>

AlreadyActive ==
    /\ last' = Returned("start", TRUE, "already")
    /\ UNCHANGED <<srvVars, mgrVars, slots>>

\* startStreamingServer() and what follows it in startNodeVirtualCam /
\* startOptimizedObsStream / startStreamOnly, up to the next real await.
\* With a server already held it returns at once and the caller goes on;
\* otherwise the first candidate port is tried.
BeginServer(s) ==
    IF streamingServer
    THEN /\ isActive' = TRUE
         /\ last' = StartResult(virtualCamType, TRUE, port)
         /\ slots' = [slots EXCEPT ![s] = IdleSlot]
         /\ UNCHANGED <<srvVars, streamingServer>>
    ELSE /\ NewServerVars(DefaultPort, "pending")
         /\ streamingServer' = TRUE
         /\ slots' = [Disown(slots) EXCEPT ![s] = Waiting("start", "listen", 0, NoRel)]
         /\ last' = Step("other")
         /\ UNCHANGED isActive

StartCall(s) ==
    /\ FreeSlot(s)
    /\ started' = TRUE
    /\ drvConfig' = IF ~isActive /\ virtualCamType = "node-virtualcam"
                    THEN DriverOptions ELSE drvConfig
    /\ UNCHANGED <<now, ticks, virtualCamType, host, page, resolution, fps, performance, frameBuffer>>
    /\ IF isActive
       THEN AlreadyActive
       ELSE IF virtualCamType = "node-virtualcam"
       THEN \E ctorThrows \in BOOLEAN :
              IF ctorThrows
              THEN /\ last' = Returned("start", FALSE, "error")
                   /\ UNCHANGED <<srvVars, virtualCam, drvRunning, isActive,
                                  streamingServer, slots>>
              ELSE /\ virtualCam' = TRUE
                   /\ slots' = [slots EXCEPT ![s] = Waiting("start", "drvStart", 0, NoRel)]
                   /\ last' = Step("other")
                   /\ UNCHANGED <<srvVars, drvRunning, isActive, streamingServer>>
       ELSE /\ BeginServer(s)
            /\ UNCHANGED <<virtualCam, drvRunning>>

\* await this.virtualCam.start() settles.
DrvStartDone(s) ==
    /\ slots[s].op = "start" /\ slots[s].pc = "drvStart"
    /\ UNCHANGED <<now, ticks, virtualCamType, host, page, resolution, virtualCam, fps, performance,
                   frameBuffer, started, drvConfig>>
    /\ \E ok \in BOOLEAN :
         IF ok
         THEN /\ drvRunning' = TRUE
              /\ BeginServer(s)
         ELSE /\ last' = Returned("start", FALSE, "error")
              /\ slots' = [slots EXCEPT ![s] = IdleSlot]
              /\ UNCHANGED <<srvVars, drvRunning, isActive, streamingServer>>

\* await this.streamingServer.start() settles: the listen callback (ok) or
\* the 'error' event (the port is taken).
\* busy: how many of the first candidate ports another listener may hold.
\* The 'error' event of http.Server for a port that is taken: an Error whose
\* message names the failure (the text is kept as a code and the port).
ListenError(p) == [name |-> "Error", message |-> <<"EADDRINUSE", p>>]

\* StreamingServer.start's error handler: reject({success: false, error: error.message}).
ServerReject(err) == [success |-> FALSE, error |-> err.message]

\* error.message as read in the catch of startStreamingServer: undefined
\* for a value that has no such property.
MessageOf(thrown) ==
    IF "message" \in DOMAIN thrown THEN thrown.message ELSE <<"undefined", 0>>

\* lastError when the candidate of index idx was the last to fail; it ends
\* the message of the Error that startStreamingServer throws and that the
\* catch blocks of the backend method hand back as result.error.
LastError(idx) == MessageOf(ServerReject(ListenError(DefaultPort + idx)))

ListenDone(s, busy) ==
    /\ slots[s].op = "start" /\ slots[s].pc = "listen"
    /\ UNCHANGED <<now, ticks, virtualCamType, host, page, resolution, virtualCam, drvRunning, fps,
                   performance, frameBuffer, started, drvConfig>>
    /\ \E ok \in (IF slots[s].idx < busy THEN BOOLEAN ELSE {TRUE}) :
         IF ok
         THEN /\ srvState' = IF slots[s].mine THEN "listening" ELSE srvState
              /\ port' = IF slots[s].mine THEN AdoptPort(port, ActualPort(port)) ELSE port
              /\ isActive' = TRUE
              /\ last' = StartResult(virtualCamType, streamingServer, port')
              /\ slots' = [slots EXCEPT ![s] = IdleSlot]
              /\ UNCHANGED <<clients, latestFrame, frameStats, readyState,
                             sent, bcasts, streamingServer>>
         ELSE IF slots[s].idx + 1 < NumPorts
         THEN /\ NewServerVars(DefaultPort + slots[s].idx + 1, "pending")
              /\ streamingServer' = TRUE
              /\ slots' = [Disown(slots) EXCEPT
                             ![s] = Waiting("start", "listen", slots[s].idx + 1, NoRel)]
              /\ last' = Step("other")
              /\ UNCHANGED isActive
         ELSE /\ srvState' = IF slots[s].mine THEN "failed" ELSE srvState
              /\ streamingServer' = FALSE
              /\ slots' = [slots EXCEPT ![s] = IdleSlot]
              /\ last' = [Returned("start", FALSE, "noPort") EXCEPT
                             !.arg = <<LastError(slots[s].idx)>>]
              /\ UNCHANGED <<port, clients, latestFrame, frameStats, readyState,
                             sent, bcasts, isActive>>

(* --------------- OptimizedVirtualCameraManager.stop -------------------- *)
\* The tail of stop(): lines 306-313.
\* Variant: a release step that threw reaches the outer catch of stop().
AbortStop(s, r) ==
    IF r.drvThrew \/ r.srvThrew
    THEN /\ last' = [Returned("stop", FALSE, "error") EXCEPT !.rel = r]
         /\ slots' = [slots EXCEPT ![s] = IdleSlot]
         /\ UNCHANGED <<isActive, frameBuffer>>
    ELSE /\ isActive' = FALSE
         /\ frameBuffer' = {}
         /\ last' = [Returned("stop", TRUE, "stopped") EXCEPT !.rel = r]
         /\ slots' = [slots EXCEPT ![s] = IdleSlot]

FinishStop(s, r) ==
    /\ isActive' = FALSE
    /\ frameBuffer' = {}
    /\ last' = [Returned("stop", TRUE, "stopped") EXCEPT !.rel = r]
    /\ slots' = [slots EXCEPT ![s] = IdleSlot]

\* "Stop streaming server" (lines 295-304) up to its await; r records what
\* the driver step did.
StopServerStep(s, r) ==
    IF ~streamingServer
    THEN /\ FinishStop(s, r)
         /\ UNCHANGED <<srvVars, streamingServer>>
    ELSE \E throws \in BOOLEAN :
           IF throws
           THEN /\ FinishStop(s, [r EXCEPT !.srvCalled = TRUE, !.srvThrew = TRUE])
                /\ UNCHANGED <<srvVars, streamingServer>>
           ELSE /\ ServerStopSync
                /\ slots' = [slots EXCEPT ![s] =
                               Waiting("stop", "srvStop", 0, [r EXCEPT !.srvCalled = TRUE])]
                /\ last' = Step("other")
                /\ UNCHANGED <<isActive, frameBuffer, streamingServer>>

\* stop() on a manager that is not active: the early return of lines 278-280.
\* Variant: stopping an inactive manager is reported as a failure.
StopRefused ==
    /\ last' = Returned("stop", FALSE, "notActive")
    /\ UNCHANGED <<srvVars, isActive, streamingServer, frameBuffer, slots>>

NotActive ==
    /\ last' = Returned("stop", TRUE, "notActive")
    /\ UNCHANGED <<srvVars, isActive, streamingServer, frameBuffer, slots>>

StopCall(s) ==
    /\ FreeSlot(s)
    /\ UNCHANGED <<now, ticks, virtualCamType, host, page, resolution, virtualCam, drvRunning, fps,
                   performance, started, drvConfig>>
    /\ IF ~isActive
       THEN NotActive
       ELSE IF virtualCam /\ virtualCamType = "node-virtualcam"
       THEN /\ slots' = [slots EXCEPT ![s] =
                           Waiting("stop", "drvStop", 0, [NoRel EXCEPT !.drvCalled = TRUE])]
            /\ last' = Step("other")
            /\ UNCHANGED <<srvVars, isActive, streamingServer, frameBuffer>>
       ELSE StopServerStep(s, NoRel)

\* await this.virtualCam.stop() settles.
DrvStopDone(s) ==
    /\ slots[s].op = "stop" /\ slots[s].pc = "drvStop"
    /\ UNCHANGED <<now, ticks, virtualCamType, host, page, resolution, fps, performance, started, drvConfig>>
    /\ \E ok \in BOOLEAN :
         /\ IF ok
            THEN virtualCam' = FALSE /\ drvRunning' = FALSE
            ELSE UNCHANGED <<virtualCam, drvRunning>>
         /\ StopServerStep(s, [slots[s].rel EXCEPT !.drvThrew = ~ok])

\* await this.streamingServer.stop() settles: the close callback ran.
SrvStopDone(s) ==
    /\ slots[s].op = "stop" /\ slots[s].pc = "srvStop"
    /\ slots[s].mine => AllTransportsGone
    /\ srvState' = IF slots[s].mine /\ srvState = "closing" THEN "closed" ELSE srvState
    /\ streamingServer' = FALSE
    /\ FinishStop(s, slots[s].rel)
    /\ UNCHANGED <<now, ticks, port, clients, latestFrame, frameStats, readyState,
                   sent, bcasts, virtualCamType, host, page, resolution, virtualCam, drvRunning, fps,
                   performance, started, drvConfig>>

(* ------------------------- backend detection -------------------------- *)
\* The machine as the detection sees it: binding says that
\* require('node-virtualcam') returns the binding (it throws otherwise),
\* paths which of the known OBS installation paths exist, probeFails that
\* the file system probe throws.
ObsPaths == {"win64", "win32", "mac", "home"}
Hosts == [binding : BOOLEAN, paths : SUBSET ObsPaths, probeFails : BOOLEAN]

\* The paths each detection looks at.
EnvironmentPaths == ObsPaths
OptimizedPaths == {"win64", "win32"}

\* The first probe: try { require('node-virtualcam') } catch { log }.
\* Variant: a binding that fails to load is reported as the native driver
\* all the same.
AssumeBinding(h) == TRUE

BindingLoads(h) == h.binding

\* The second probe: try { paths.some(existsSync) } catch { log }.
ObsFound(h, known) == ~h.probeFails /\ h.paths \cap known # {}

\* detectVirtualCameraEnvironment({obsType, fallbackType}): the value
\* returned; lib says that virtualCamLib is the binding (not null).
detectVirtualCameraEnvironment(h, obsType, fallbackType) ==
    IF BindingLoads(h)
    THEN [type |-> "node-virtualcam", lib |-> h.binding, threw |-> FALSE]
    ELSE IF ObsFound(h, EnvironmentPaths)
    THEN [type |-> obsType, lib |-> FALSE, threw |-> FALSE]
    ELSE [type |-> fallbackType, lib |-> FALSE, threw |-> FALSE]

\* OptimizedVirtualCameraManager.initializeVirtualCam: what it leaves in
\* virtualCamType and virtualCamLib.
initializeVirtualCam(h) ==
    IF BindingLoads(h)
    THEN [type |-> "node-virtualcam", lib |-> h.binding, threw |-> FALSE]
    ELSE IF ObsFound(h, OptimizedPaths)
    THEN [type |-> "obs-optimized", lib |-> FALSE, threw |-> FALSE]
    ELSE [type |-> "stream-only", lib |-> FALSE, threw |-> FALSE]

\* One machine for each backend.
TypicalHosts ==
    {[binding |-> TRUE, paths |-> {}, probeFails |-> FALSE],
     [binding |-> FALSE, paths |-> {"win64"}, probeFails |-> FALSE],
     [binding |-> FALSE, paths |-> {}, probeFails |-> FALSE]}

(* ------------- the viewer page (CleanStreamViewer in the HTML) ------------- *)
\* The page as the HTML declares it, before its script runs: the loading
\* message is visible, the error message hidden, no socket, no timer.
\* ws and stale are readyStates; stale is a socket that this.ws no longer
\* points to but whose handlers are still attached.
NoPage ==
    [ws |-> "none", stale |-> "none", isConnected |-> FALSE,
     currentReconnectAttempt |-> 0, frameCount |-> 0, decoding |-> FALSE,
     loading |-> TRUE, error |-> FALSE, status |-> "none", timers |-> 0, delay |-> 0]

RECURSIVE Pow(_, _)
Pow(b, e) == IF e = 0 THEN 1 ELSE b * Pow(b, e - 1)

\* reconnectDelay * Math.pow(1.5, attempt - 1), kept exact by counting in
\* units of 1 / 2^(maxReconnectAttempts - 1) ms.
BackoffDelay(attempt) ==
    reconnectDelay * Pow(3, attempt - 1) * Pow(2, maxReconnectAttempts - attempt)

updateStatus(p, status) == [p EXCEPT !.status = status]
showLoading(p) == [p EXCEPT !.loading = TRUE, !.error = FALSE]
showError(p) == [p EXCEPT !.loading = FALSE, !.error = TRUE]
hideMessages(p) == [p EXCEPT !.loading = FALSE, !.error = FALSE]

\* currentReconnectAttempt < maxReconnectAttempts
MayRetry(p) == p.currentReconnectAttempt < maxReconnectAttempts

scheduleReconnect(p) ==
    IF MayRetry(p)
    THEN [p EXCEPT !.currentReconnectAttempt = @ + 1,
                   !.delay = BackoffDelay(p.currentReconnectAttempt + 1),
                   !.timers = @ + 1]
    ELSE showError(p)

\* connectToStream(): nothing when this.ws is open; otherwise a new socket
\* replaces this.ws (new WebSocket() of the page's own ws:// URL does not
\* throw).  A socket that was still connecting lives on as the stale one.
connectToStream(p) ==
    IF p.ws = "OPEN" THEN p
    ELSE [showLoading(updateStatus(p, "connecting")) EXCEPT
              !.ws = "CONNECTING",
              !.stale = IF p.ws = "CONNECTING" THEN "CONNECTING" ELSE @]

\* what ws.onopen does to the two messages
OpenMessages(p) == hideMessages(p)

onopen(p) ==
    OpenMessages(updateStatus([p EXCEPT !.isConnected = TRUE,
                                        !.currentReconnectAttempt = 0], "connected"))

\* ws.onmessage: a Blob is counted and handed to displayFrame, whose image
\* loads later; anything else is ignored.
onmessage(p, blob) ==
    IF blob THEN [p EXCEPT !.frameCount = @ + 1, !.decoding = TRUE] ELSE p

onclose(p) == scheduleReconnect(updateStatus([p EXCEPT !.isConnected = FALSE], "disconnected"))

onerror(p) == showError(updateStatus([p EXCEPT !.isConnected = FALSE], "disconnected"))

\* Everything but the page.
tabless == <<now, ticks, srvVars, last, virtualCamType, host, virtualCam, drvRunning, isActive,
             streamingServer, fps, performance, frameBuffer, resolution, slots, started,
             drvConfig>>

Sockets == {"ws", "stale"}
Alive == {"CONNECTING", "OPEN"}

\* Sockets and timers that can still run a handler of the page.
Pending(p) ==
    p.timers + (IF p.ws \in Alive THEN 1 ELSE 0) + (IF p.stale \in Alive THEN 1 ELSE 0)

\* The handshake of a socket completes.
WsOpen(k) ==
    /\ page[k] = "CONNECTING"
    /\ page' = [onopen(page) EXCEPT ![k] = "OPEN"]
    /\ UNCHANGED tabless

\* A message arrives on an open socket.
WsMessage(k, blob) ==
    /\ page[k] = "OPEN"
    /\ page.frameCount < MaxFrames
    /\ page' = onmessage(page, blob)
    /\ UNCHANGED tabless

\* img.onload of displayFrame.
ImageLoaded ==
    /\ page.decoding
    /\ page' = [hideMessages(page) EXCEPT !.decoding = FALSE]
    /\ UNCHANGED tabless

\* A socket closes.  A clean close fires the close event alone; a failed
\* handshake or a broken connection fires error and then close in one task.
WsClose(k, failed) ==
    /\ page[k] \in Alive
    /\ LET gone == [page EXCEPT ![k] = IF k = "ws" THEN "CLOSED" ELSE "none"]
       IN  page' = onclose(IF failed THEN onerror(gone) ELSE gone)
    /\ UNCHANGED tabless

\* A setTimeout of scheduleReconnect fires.
ReconnectTimer ==
    /\ page.timers > 0
    /\ page' = connectToStream([page EXCEPT !.timers = @ - 1])
    /\ UNCHANGED tabless

\* visibilitychange with the document visible.
VisibilityChange ==
    /\ page.ws # "none"
    /\ Pending(page) < MaxPending
    /\ page' = IF ~page.isConnected THEN connectToStream(page) ELSE page
    /\ UNCHANGED tabless

(* ------------------------- the manager's world ------------------------- *)
NewPerformance == [framesReceived |-> 0, framesDropped |-> 0, avgLatency |-> 0,
                   lastFrameTime |-> 0, adaptiveFps |-> DefaultFps]

InitWorld ==
    /\ now = StartTime
    /\ ticks = 0
    /\ clients = {}
    /\ latestFrame = NoFrame
    /\ frameStats = NewFrameStats(StartTime)
    /\ readyState = [c \in Clients |-> "NONE"]
    /\ sent = [c \in Clients |-> 0]
    /\ bcasts = 0
    /\ last = Step("init")
    /\ virtualCam = FALSE
    /\ drvRunning = FALSE
    /\ isActive = FALSE
    /\ streamingServer = FALSE
    /\ fps = DefaultFps
    /\ performance = NewPerformance
    /\ frameBuffer = {}
    /\ slots = [s \in Slots |-> IdleSlot]
    /\ started = FALSE
    /\ resolution = DefaultResolution
    /\ drvConfig = NoConfig

\* new OptimizedVirtualCameraManager(): initializeVirtualCam has picked the
\* backend the host offers; no StreamingServer exists yet.
Init ==
    /\ InitWorld
    /\ \E h \in TypicalHosts :
          /\ host = h
          /\ page = NoPage
          /\ virtualCamType = initializeVirtualCam(h).type
    /\ srvState = "none"
    /\ port = 0

\* No start() or stop() is in flight: the caller serialises the two (the
\* desktop shell awaits each before issuing the next).
Quiet == \A t \in Slots : slots[t].op = "idle"

Next ==
    \/ \E s \in Slots : Quiet /\ StartCall(s)
    \/ \E s \in Slots : DrvStartDone(s)
    \/ \E s \in Slots : ListenDone(s, MaxBusyPorts)
    \/ \E s \in Slots : Quiet /\ StopCall(s)
    \/ \E s \in Slots : DrvStopDone(s)
    \/ \E s \in Slots : SrvStopDone(s)
    \/ \E kind \in FrameKinds, b \in Payloads, fail \in SUBSET clients,
          statsFail \in SUBSET clients :
             performance.framesReceived < MaxSubmit /\ SendFrame(kind, b, fail, statsFail)
    \/ \E c \in Viewers : Connect(c)
    \/ \E c \in Viewers : PeerClosing(c)
    \/ \E c \in Viewers : OnError(c)
    \/ \E c \in Viewers : OnClose(c)
    \/ Tick(FpsWindowMs)

Spec == Init /\ [][Next]_vars

(* --------------- a StreamingServer driven directly --------------------- *)
\* The scripts under src/unnamed construct a StreamingServer themselves and
\* call start, broadcastFrame and stop on it.
ServerStart(s) ==
    /\ FreeSlot(s)
    /\ srvState = "created"
    /\ srvState' = "pending"
    /\ slots' = [slots EXCEPT ![s] = Waiting("server.start", "listen", 0, NoRel)]
    /\ last' = Step("other")
    /\ UNCHANGED <<now, ticks, port, clients, latestFrame, frameStats, readyState,
                   sent, bcasts, mgrVars, started, drvConfig>>

\* The listen callback resolves the promise; the 'error' event rejects it.
ServerListenDone(s) ==
    /\ slots[s].op = "server.start" /\ slots[s].pc = "listen"
    /\ \E ok \in BOOLEAN :
         /\ srvState' = IF ok THEN "listening" ELSE "failed"
         /\ port' = IF ok THEN AdoptPort(port, ActualPort(port)) ELSE port
         /\ last' = IF ok
                    THEN [Returned("server.start", TRUE, "started") EXCEPT !.urlPort = port']
                    ELSE [Returned("server.start", FALSE, "error") EXCEPT !.threw = TRUE]
    /\ slots' = [slots EXCEPT ![s] = IdleSlot]
    /\ UNCHANGED <<now, ticks, clients, latestFrame, frameStats, readyState,
                   sent, bcasts, mgrVars, started, drvConfig>>

ServerStop(s) ==
    /\ FreeSlot(s)
    /\ srvState # "none"
    /\ ServerStopSync
    /\ slots' = [slots EXCEPT ![s] = Waiting("server.stop", "srvStop", 0, NoRel)]
    /\ last' = Step("other")
    /\ UNCHANGED <<now, ticks, mgrVars, started, drvConfig>>

ServerStopDone(s) ==
    /\ slots[s].op = "server.stop" /\ slots[s].pc = "srvStop"
    /\ AllTransportsGone
    /\ srvState' = IF srvState = "closing" THEN "closed" ELSE srvState
    /\ last' = Returned("server.stop", TRUE, "stopped")
    /\ slots' = [slots EXCEPT ![s] = IdleSlot]
    /\ UNCHANGED <<now, ticks, port, clients, latestFrame, frameStats, readyState,
                   sent, bcasts, mgrVars, started, drvConfig>>

\* server.broadcastFrame(Buffer) called by the script.
BroadcastFrame(b, fail, statsFail) ==
    LET frame == [seq |-> bcasts + 1, bytes |-> b]
        out == BroadcastOutcome(frame, fail, statsFail)
    IN  /\ bcasts < MaxBroadcast
        /\ srvState # "none"
        /\ broadcastFrame(frame, fail, statsFail)
        /\ last' = [Step("broadcastFrame") EXCEPT !.threw = out.threw,
                                                  !.success = ~out.threw, !.bf = out]
        /\ UNCHANGED <<now, ticks, srvState, port, readyState, mgrVars, slots, started, drvConfig>>

\* new CleanStreamViewer(): the constructor ends with connectToStream().
InitViewer ==
    /\ InitWorld
    /\ host = [binding |-> FALSE, paths |-> {}, probeFails |-> FALSE]
    /\ virtualCamType = "stream-only"
    /\ srvState = "none"
    /\ port = 0
    /\ page = connectToStream(NoPage)

NextViewer ==
    \/ \E k \in Sockets : WsOpen(k)
    \/ \E k \in Sockets, blob \in BOOLEAN : WsMessage(k, blob)
    \/ ImageLoaded
    \/ \E k \in Sockets, failed \in BOOLEAN : WsClose(k, failed)
    \/ ReconnectTimer
    \/ VisibilityChange

SpecViewer == InitViewer /\ [][NextViewer]_vars

\* new StreamingServer(8080), as in testStreamingServer.
InitServer ==
    /\ InitWorld
    /\ host = [binding |-> FALSE, paths |-> {}, probeFails |-> FALSE]
    /\ page = NoPage
    /\ virtualCamType = "stream-only"
    /\ srvState = "created"
    /\ port = DefaultPort

NextServer ==
    \/ \E s \in Slots : ServerStart(s)
    \/ \E s \in Slots : ServerListenDone(s)
    \/ \E s \in Slots : ServerStop(s)
    \/ \E s \in Slots : ServerStopDone(s)
    \/ \E b \in Payloads, fail \in SUBSET clients, statsFail \in SUBSET clients :
          BroadcastFrame(b, fail, statsFail)
    \/ \E c \in Direct : Connect(c)
    \/ \E c \in Direct : PeerClosing(c)
    \/ \E c \in Direct : OnError(c)
    \/ \E c \in Direct : OnClose(c)
    \/ \E d \in {FpsWindowMs - 1, FpsWindowMs} : Tick(d)

SpecServer == InitServer /\ [][NextServer]_vars

\* StreamingServer.getStatus(): the caller receives the snapshot.
ServerGetStatus ==
    /\ last' = [Returned("getStatus", TRUE, "") EXCEPT !.arg = <<ServerStatus>>]
    /\ UNCHANGED <<now, ticks, srvVars, mgrVars, slots, started, drvConfig>>

\* The bare relay, polled for its status at any moment.
NextStatus ==
    \/ \E s \in Slots : ServerStart(s)
    \/ \E s \in Slots : ServerListenDone(s)
    \/ \E s \in Slots : ServerStop(s)
    \/ \E s \in Slots : ServerStopDone(s)
    \/ \E b \in Payloads, fail \in SUBSET clients, statsFail \in SUBSET clients :
          BroadcastFrame(b, fail, statsFail)
    \/ \E c \in Direct : Connect(c)
    \/ \E c \in Direct : PeerClosing(c)
    \/ \E c \in Direct : OnError(c)
    \/ \E c \in Direct : OnClose(c)
    \/ \E d \in {FpsWindowMs - 1, FpsWindowMs} : Tick(d)
    \/ ServerGetStatus

SpecStatus == InitServer /\ [][NextStatus]_vars

(* --------------- the manager when every candidate port may be taken ---- *)
\* The lifecycle of OptimizedVirtualCameraManager on a host where another
\* listener may hold any of the candidate ports, up to all five.
NextPorts ==
    \/ \E s \in Slots : Quiet /\ StartCall(s)
    \/ \E s \in Slots : DrvStartDone(s)
    \/ \E s \in Slots : ListenDone(s, NumPorts)
    \/ \E s \in Slots : Quiet /\ StopCall(s)
    \/ \E s \in Slots : DrvStopDone(s)
    \/ \E s \in Slots : SrvStopDone(s)
    \/ \E kind \in FrameKinds, b \in Payloads, fail \in SUBSET clients,
          statsFail \in SUBSET clients :
             performance.framesReceived < MaxSubmit /\ SendFrame(kind, b, fail, statsFail)
    \/ Tick(FpsWindowMs)

SpecPorts == Init /\ [][NextPorts]_vars

(* --------------- the manager under overlapping start() calls ----------- *)
\* start() is called again before an earlier call has returned: nothing in
\* the manager keeps a second call from running while the first one is
\* suspended at an await.  Another listener may hold any candidate port.
NextRace ==
    \/ \E s \in Slots : StartCall(s)
    \/ \E s \in Slots : DrvStartDone(s)
    \/ \E s \in Slots : ListenDone(s, NumPorts)

SpecRace == Init /\ [][NextRace]_vars

\* start() and stop() issued without waiting for one another; at most
\* MaxBusyPorts candidate ports are taken.
NextOverlap ==
    \/ \E s \in Slots : StartCall(s)
    \/ \E s \in Slots : DrvStartDone(s)
    \/ \E s \in Slots : ListenDone(s, MaxBusyPorts)
    \/ \E s \in Slots : StopCall(s)
    \/ \E s \in Slots : DrvStopDone(s)
    \/ \E s \in Slots : SrvStopDone(s)

SpecOverlap == Init /\ [][NextOverlap]_vars

\* stop()/start() cycles of a manager that is fed valid frames, on a clock
\* that advances by milliseconds; every candidate port is free.
ValidKinds == {"dataurl", "buffer"}

NextCycle ==
    \/ \E s \in Slots : Quiet /\ StartCall(s)
    \/ \E s \in Slots : DrvStartDone(s)
    \/ \E s \in Slots : ListenDone(s, 0)
    \/ \E s \in Slots : Quiet /\ StopCall(s)
    \/ \E s \in Slots : DrvStopDone(s)
    \/ \E s \in Slots : SrvStopDone(s)
    \/ \E kind \in ValidKinds :
          performance.framesReceived < MaxSubmit /\ SendFrame(kind, 1, {}, {})
    \/ \E d \in {FastGap, SlowGap} : Tick(d)

SpecCycle == Init /\ [][NextCycle]_vars

(* --------------- the manager serving several viewers ------------------- *)
\* A manager that is started once, on a free port, and then forwards
\* well-formed frames to up to MaxClients viewers whose transports may
\* fail, close, or throw on send().
NextFanout ==
    \/ \E s \in Slots : Quiet /\ ~started /\ StartCall(s)
    \/ \E s \in Slots : DrvStartDone(s)
    \/ \E s \in Slots : ListenDone(s, 0)
    \/ \E fail \in SUBSET clients :
          /\ isActive
          /\ performance.framesReceived < MaxSubmit
          /\ SendFrame("buffer", 1, fail, {})
    \/ \E c \in Direct : Connect(c)
    \/ \E c \in Direct : PeerClosing(c)
    \/ \E c \in Direct : OnError(c)
    \/ \E c \in Direct : OnClose(c)
    \/ Tick(FpsWindowMs)

SpecFanout == Init /\ [][NextFanout]_vars

(* --------------- OptimizedVirtualCameraManager.setFPS ------------------ *)
\* Variant: the configured rate is stored as given.
Unclamped(lo, hi, x) == x

ClampFps(lo, hi, x) == IF x < lo THEN lo ELSE IF x > hi THEN hi ELSE x

setFPS(f) ==
    LET clamped == ClampFps(MinFps, MaxFps, f) IN
    /\ fps' = clamped
    /\ performance' = [performance EXCEPT !.adaptiveFps = clamped]
    /\ last' = Returned("setFPS", TRUE, "")
    /\ UNCHANGED <<now, ticks, srvVars, virtualCamType, host, page, resolution, virtualCam, drvRunning,
                   isActive, streamingServer, frameBuffer, slots, started, drvConfig>>

(* --------------- OptimizedVirtualCameraManager.setResolution ----------- *)
Resolutions == {<<640, 480>>, <<1280, 720>>, <<1920, 1080>>}

\* Variant: the resolution is stored whatever the state.
ResizeAlways(width, height) ==
    /\ resolution' = <<width, height>>
    /\ last' = [Returned("setResolution", TRUE, "") EXCEPT !.arg = <<width, height>>]
    /\ UNCHANGED <<now, ticks, srvVars, virtualCamType, host, page, virtualCam, drvRunning,
                   isActive, streamingServer, fps, performance, frameBuffer, slots,
                   started, drvConfig>>

setResolution(width, height) ==
    /\ IF isActive
       THEN /\ last' = [Returned("setResolution", FALSE, "active")
                          EXCEPT !.arg = <<width, height>>]
            /\ UNCHANGED resolution
       ELSE /\ resolution' = <<width, height>>
            /\ last' = [Returned("setResolution", TRUE, "")
                          EXCEPT !.arg = <<width, height>>]
    /\ UNCHANGED <<now, ticks, srvVars, virtualCamType, host, page, virtualCam, drvRunning,
                   isActive, streamingServer, fps, performance, frameBuffer, slots,
                   started, drvConfig>>

(* --------------- the manager being configured -------------------------- *)
\* start(), stop() and setResolution() in any order; setResolution is
\* synchronous and may be called while a start() or stop() is in flight.
\* All candidate ports are free.
NextConfig ==
    \/ \E s \in Slots : Quiet /\ StartCall(s)
    \/ \E s \in Slots : DrvStartDone(s)
    \/ \E s \in Slots : ListenDone(s, 0)
    \/ \E s \in Slots : Quiet /\ StopCall(s)
    \/ \E s \in Slots : DrvStopDone(s)
    \/ \E s \in Slots : SrvStopDone(s)
    \/ \E r \in Resolutions : setResolution(r[1], r[2])

SpecConfig == Init /\ [][NextConfig]_vars

(* --------------- the construction of a manager ------------------------- *)
\* new VirtualCameraManager() and new OptimizedVirtualCameraManager() on any
\* machine: the constructor sets virtualCamType to 'none' and then runs the
\* detection, which has no await and so completes inside the constructor.
Construct(step, result) ==
    /\ last.step = "init"
    /\ virtualCamType' = result.type
    /\ last' = [Step(step) EXCEPT !.success = ~result.threw, !.threw = result.threw,
                                  !.note = result.type, !.arg = <<result.lib>>]
    /\ UNCHANGED <<now, ticks, srvVars, host, page, virtualCam, drvRunning, isActive,
                   streamingServer, fps, performance, frameBuffer, resolution,
                   slots, started, drvConfig>>

InitDetect ==
    /\ InitWorld
    /\ host \in Hosts
    /\ page = NoPage
    /\ virtualCamType = "none"
    /\ srvState = "none"
    /\ port = 0

NextDetect ==
    \/ Construct("detectVirtualCameraEnvironment",
                 detectVirtualCameraEnvironment(host, "obs-virtual-cam", "none"))
    \/ Construct("initializeVirtualCam", initializeVirtualCam(host))

SpecDetect == InitDetect /\ [][NextDetect]_vars

(* --------------- OptimizedVirtualCameraManager.getStreamUrl ------------ *)
\* The port in the URL returned, 0 for null.
getStreamUrl ==
    IF streamingServer /\ ServerStatus.isRunning THEN ServerStatus.port ELSE 0

(* --------------- OptimizedVirtualCameraManager.getStatus --------------- *)
\* The streaming part of the status: present only with a server object;
\* urlPort is the port in its streamUrl, 0 for null.
NoStreaming == [present |-> FALSE, port |-> 0, clients |-> 0, urlPort |-> 0]

getStatus ==
    [isActive |-> isActive, type |-> virtualCamType, fps |-> fps,
     adaptiveFps |-> performance.adaptiveFps,
     framesReceived |-> performance.framesReceived,
     framesDropped |-> performance.framesDropped,
     streaming |-> IF streamingServer
                   THEN [present |-> TRUE, port |-> ServerStatus.port,
                         clients |-> ServerStatus.clients,
                         urlPort |-> IF ServerStatus.isRunning
                                     THEN ServerStatus.port ELSE 0]
                   ELSE NoStreaming]

(* --------------- the manager fed by a paced stream --------------------- *)
\* The producer submits one frame, waits, submits the next: SlowGap ms
\* between frames at first and, from some frame on, FastGap ms.  The rate
\* is configured before the first wait.  All candidate ports are free and
\* every frame carries the same payload.
FpsChoices == {5, 10, 25, 30, 60, 100}

\* A frame has been submitted at the current instant.
Submitted == performance.framesReceived = ticks + 1

\* Every wait so far was a slow one.
StillSlow == now = StartTime + SlowGap * ticks

Wait(d) ==
    /\ isActive
    /\ Submitted
    /\ ticks < MaxRateTicks
    /\ d = SlowGap => StillSlow
    /\ now' = now + d
    /\ ticks' = ticks + 1
    /\ last' = Step("other")
    /\ UNCHANGED <<srvVars, mgrVars, slots, started, drvConfig>>

NextRate ==
    \/ \E s \in Slots : Quiet /\ ~started /\ StartCall(s)
    \/ \E s \in Slots : DrvStartDone(s)
    \/ \E s \in Slots : ListenDone(s, 0)
    \/ \E kind \in FrameKinds : isActive /\ ~Submitted /\ SendFrame(kind, 1, {}, {})
    \/ \E f \in FpsChoices : ticks = 0 /\ fps # ClampFps(MinFps, MaxFps, f) /\ setFPS(f)
    \/ \E d \in {SlowGap, FastGap} : Wait(d)

SpecRate == Init /\ [][NextRate]_vars

(* --------------- the manager fed by a steady stream -------------------- *)
\* The producer submits well-formed frames a quarter of the target interval
\* apart: frame k (counted from 0) is due k * (1000 / rate) / 4 ms after the
\* first, and Date.now() reads whole milliseconds.  The rate is configured
\* before the first frame.
PaceGap(k, rate) == ((k * 250) \div rate) - (((k - 1) * 250) \div rate)

Pace ==
    /\ isActive
    /\ Submitted
    /\ performance.framesReceived < SteadyFrames
    /\ now' = now + PaceGap(performance.framesReceived, performance.adaptiveFps)
    /\ ticks' = ticks + 1
    /\ last' = Step("other")
    /\ UNCHANGED <<srvVars, mgrVars, slots, started, drvConfig>>

NextSteady ==
    \/ \E s \in Slots : Quiet /\ ~started /\ StartCall(s)
    \/ \E s \in Slots : DrvStartDone(s)
    \/ \E s \in Slots : ListenDone(s, 0)
    \/ \E kind \in {"dataurl", "buffer"} :
          isActive /\ ~Submitted /\ SendFrame(kind, 1, {}, {})
    \/ \E f \in FpsChoices :
          /\ performance.framesReceived = 0
          /\ fps # ClampFps(MinFps, MaxFps, f)
          /\ setFPS(f)
    \/ Pace

SpecSteady == Init /\ [][NextSteady]_vars

(* --------------- VirtualCameraManager (main.js 566-909) ---------------- *)
\* The non-optimized manager.  Its fields are read off the same variables:
\* virtualCamType, virtualCam, isActive, fps; performance.lastFrameTime is
\* this.lastFrameTime; streamingServer says that this.obsServer is not null,
\* srvState and port describe that http server, latestFrame is
\* this.latestFrame (the image data last stored for OBS to fetch), bcasts
\* counts the sendFrame calls.  It has no viewer registry and no frame buffer.
VcmTypes == {"node-virtualcam", "obs-virtual-cam", "none"}

vcmUnused == <<clients, frameStats, readyState, sent, frameBuffer>>

\* start(): up to the first await that suspends.
VcmStartCall(s) ==
    /\ FreeSlot(s)
    /\ started' = TRUE
    /\ drvConfig' = IF ~isActive /\ virtualCamType = "node-virtualcam"
                    THEN DriverOptions ELSE drvConfig
    /\ UNCHANGED <<now, ticks, virtualCamType, host, page, resolution, fps, performance, latestFrame, bcasts,
                   drvRunning, vcmUnused>>
    /\ IF isActive
       THEN /\ last' = Returned("start", TRUE, "already")
            /\ UNCHANGED <<srvState, port, virtualCam, isActive, streamingServer, slots>>
       ELSE IF virtualCamType = "node-virtualcam"
       THEN \E ctorThrows \in BOOLEAN :
              IF ctorThrows
              THEN /\ last' = Returned("start", FALSE, "error")
                   /\ UNCHANGED <<srvState, port, virtualCam, isActive,
                                  streamingServer, slots>>
              ELSE /\ virtualCam' = TRUE
                   /\ slots' = [slots EXCEPT ![s] = Waiting("start", "drvStart", 0, NoRel)]
                   /\ last' = Step("other")
                   /\ UNCHANGED <<srvState, port, isActive, streamingServer>>
       ELSE IF virtualCamType = "obs-virtual-cam"
       THEN /\ streamingServer' = TRUE
            /\ srvState' = "pending"
            /\ slots' = [Disown(slots) EXCEPT ![s] = Waiting("start", "listen", 0, NoRel)]
            /\ last' = Step("other")
            /\ UNCHANGED <<port, virtualCam, isActive>>
       ELSE /\ isActive' = TRUE
            /\ last' = Returned("start", TRUE, "started")
            /\ UNCHANGED <<srvState, port, virtualCam, streamingServer, slots>>

\* startNodeVirtualCam: await this.virtualCam.start() settles.
VcmDrvStartDone(s) ==
    /\ slots[s].op = "start" /\ slots[s].pc = "drvStart"
    /\ slots' = [slots EXCEPT ![s] = IdleSlot]
    /\ UNCHANGED <<now, ticks, virtualCamType, host, page, resolution, virtualCam, fps, performance,
                   latestFrame, bcasts, srvState, port, streamingServer, started, drvConfig,
                   vcmUnused>>
    /\ \E ok \in BOOLEAN :
         /\ drvRunning' = ok
         /\ isActive' = (isActive \/ ok)
         /\ last' = IF ok THEN Returned("start", TRUE, "started")
                    ELSE Returned("start", FALSE, "error")

\* startObsVirtualCam: the listen callback (ok) or the 'error' event, whose
\* rejection is caught by start().
VcmListenDone(s) ==
    /\ slots[s].op = "start" /\ slots[s].pc = "listen"
    /\ slots' = [slots EXCEPT ![s] = IdleSlot]
    /\ UNCHANGED <<now, ticks, virtualCamType, host, page, resolution, virtualCam, drvRunning, fps,
                   performance, bcasts, streamingServer, started, drvConfig, vcmUnused>>
    /\ \E ok \in BOOLEAN :
         IF ok
         THEN /\ srvState' = IF slots[s].mine THEN "listening" ELSE srvState
              /\ port' = EphemeralPort
              /\ isActive' = TRUE
              /\ latestFrame' = NoFrame
              /\ last' = [Returned("start", TRUE, "started") EXCEPT !.urlPort = EphemeralPort]
         ELSE /\ srvState' = IF slots[s].mine THEN "failed" ELSE srvState
              /\ last' = Returned("start", FALSE, "error")
              /\ UNCHANGED <<port, isActive, latestFrame>>

\* stopNodeVirtualCam once the driver's stop() has settled, or at once when
\* there is no driver object: threw says that virtualCam.stop() threw, and
\* then the catch block returns the failure and the rest is skipped.
stopNodeVirtualCam(threw) ==
    IF threw
    THEN /\ last' = [Returned("stop", FALSE, "error") EXCEPT !.rel.drvCalled = TRUE,
                                                            !.rel.drvThrew = TRUE]
         /\ UNCHANGED <<virtualCam, drvRunning, isActive>>
    ELSE /\ last' = [Returned("stop", TRUE, "stopped") EXCEPT !.rel.drvCalled = virtualCam]
         /\ virtualCam' = FALSE
         /\ drvRunning' = FALSE
         /\ isActive' = FALSE

\* stop(): up to the first await that suspends.
VcmStopCall(s) ==
    /\ FreeSlot(s)
    /\ UNCHANGED <<now, ticks, virtualCamType, host, page, resolution, fps, performance, bcasts, port,
                   started, drvConfig, vcmUnused>>
    /\ IF ~isActive
       THEN /\ last' = Returned("stop", TRUE, "notActive")
            /\ UNCHANGED <<srvState, latestFrame, virtualCam, drvRunning, isActive,
                           streamingServer, slots>>
       ELSE IF virtualCamType = "node-virtualcam"
       THEN /\ UNCHANGED <<srvState, latestFrame, streamingServer>>
            /\ IF virtualCam
               THEN /\ slots' = [slots EXCEPT ![s] =
                                   Waiting("stop", "drvStop", 0,
                                           [NoRel EXCEPT !.drvCalled = TRUE])]
                    /\ last' = Step("other")
                    /\ UNCHANGED <<virtualCam, drvRunning, isActive>>
               ELSE /\ stopNodeVirtualCam(FALSE)
                    /\ UNCHANGED slots
       ELSE IF virtualCamType = "obs-virtual-cam"
       THEN /\ IF streamingServer
               THEN /\ srvState' = IF srvState = "listening" THEN "closing" ELSE srvState
                    /\ streamingServer' = FALSE
                    /\ latestFrame' = NoFrame
               ELSE UNCHANGED <<srvState, streamingServer, latestFrame>>
            /\ isActive' = FALSE
            /\ last' = [Returned("stop", TRUE, "stopped") EXCEPT
                          !.rel.srvCalled = streamingServer]
            /\ UNCHANGED <<virtualCam, drvRunning, slots>>
       ELSE /\ isActive' = FALSE
            /\ last' = Returned("stop", TRUE, "stopped")
            /\ UNCHANGED <<srvState, latestFrame, virtualCam, drvRunning,
                           streamingServer, slots>>

\* stopNodeVirtualCam: await this.virtualCam.stop() settles.
VcmDrvStopDone(s) ==
    /\ slots[s].op = "stop" /\ slots[s].pc = "drvStop"
    /\ slots' = [slots EXCEPT ![s] = IdleSlot]
    /\ UNCHANGED <<now, ticks, virtualCamType, host, page, resolution, fps, performance, bcasts, srvState,
                   port, latestFrame, streamingServer, started, drvConfig, vcmUnused>>
    /\ \E threw \in BOOLEAN : stopNodeVirtualCam(threw)

\* now - this.lastFrameTime < 1000 / this.fps
VcmThrottled(t, lastTime, rate) == (t - lastTime) * rate < 1000

\* sendFrame(imageData): empty says that imageData is falsy.
VcmSendFrame(b, empty) ==
    /\ bcasts < MaxSubmit
    /\ bcasts' = bcasts + 1
    /\ UNCHANGED <<now, ticks, srvState, port, virtualCamType, host, page, resolution, virtualCam, drvRunning,
                   isActive, streamingServer, fps, slots, started, drvConfig, vcmUnused>>
    /\ IF ~isActive
       THEN /\ last' = Returned("sendFrame", FALSE, "notActive")
            /\ UNCHANGED <<performance, latestFrame>>
       ELSE IF VcmThrottled(now, performance.lastFrameTime, fps)
       THEN /\ last' = [Returned("sendFrame", TRUE, "skipped") EXCEPT !.skipped = TRUE]
            /\ UNCHANGED <<performance, latestFrame>>
       ELSE /\ performance' = [performance EXCEPT !.lastFrameTime = now]
            /\ IF virtualCamType = "node-virtualcam"
               THEN /\ last' = IF virtualCam THEN Returned("sendFrame", TRUE, "forwarded")
                               ELSE Returned("sendFrame", FALSE, "error")
                    /\ UNCHANGED latestFrame
               ELSE IF virtualCamType = "obs-virtual-cam"
               THEN IF ~streamingServer \/ empty
                    THEN /\ last' = Returned("sendFrame", FALSE, "error")
                         /\ UNCHANGED latestFrame
                    ELSE /\ last' = Returned("sendFrame", TRUE, "forwarded")
                         /\ latestFrame' = [seq |-> bcasts + 1, bytes |-> b]
               ELSE /\ last' = Returned("sendFrame", TRUE, "forwarded")
                    /\ UNCHANGED latestFrame

\* setFPS(fps): this.fps = fps, whatever the state.
VcmSetFPS(f) ==
    /\ fps # f
    /\ fps' = f
    /\ last' = Returned("setFPS", TRUE, "")
    /\ UNCHANGED <<now, ticks, srvVars, virtualCamType, host, page, resolution, virtualCam, drvRunning, isActive,
                   streamingServer, performance, frameBuffer, slots, started, drvConfig>>

\* new VirtualCameraManager(): detectVirtualCameraEnvironment has picked the
\* backend; this.lastFrameTime = 0; no obsServer yet.
InitVcm ==
    /\ InitWorld
    /\ \E h \in TypicalHosts :
          /\ host = h
          /\ page = NoPage
          /\ virtualCamType = detectVirtualCameraEnvironment(h, "obs-virtual-cam", "none").type
    /\ srvState = "none"
    /\ port = 0

NextVcm ==
    \/ \E s \in Slots : Quiet /\ VcmStartCall(s)
    \/ \E s \in Slots : VcmDrvStartDone(s)
    \/ \E s \in Slots : VcmListenDone(s)
    \/ \E s \in Slots : Quiet /\ VcmStopCall(s)
    \/ \E s \in Slots : VcmDrvStopDone(s)
    \/ \E b \in Payloads, empty \in BOOLEAN : VcmSendFrame(b, empty)
    \/ \E f \in {DefaultFps, MaxAdaptiveFps} : VcmSetFPS(f)
    \/ \E d \in {1000 \div MaxAdaptiveFps, FpsWindowMs} : Tick(d)

SpecVcm == InitVcm /\ [][NextVcm]_vars

(* ============================ properties =============================== *)

(* ------------------------------- C1 ------------------------------------ *)
\* C1 as stated: every connection accepted while latestFrame is set leaves
\* the viewer registered and has sent it the current latestFrame.
\* It fails when the late-join send() throws: the catch block of
\* sendFrameToClient deletes the viewer that the handler has just added.
C1_AsStated ==
    (last.step = "connection" /\ latestFrame # NoFrame) =>
        \A c \in last.bf.iter : c \in clients /\ sent[c] = latestFrame.seq

\* What the connection handler has done when it returns.
C1_Handler ==
    last.step = "connection" =>
        \A c \in last.bf.iter :
            IF latestFrame # NoFrame
            THEN /\ last.bf.tried = {c}
                 /\ last.bf.frame = latestFrame
                 /\ sent[c] = latestFrame.seq
                 /\ (c \in clients <=> c \notin last.bf.sendThrew)
                 /\ clients \ {c} = last.bf.pre
            ELSE /\ c \in clients
                 /\ clients \ {c} = last.bf.pre
                 /\ last.bf.tried = {}
                 /\ sent[c] = 0

\* send() is called on a transport only by its own connection handler and
\* by broadcastFrame.
C1_SilentUntilBroadcast ==
    \A c \in Clients :
        sent'[c] # sent[c] =>
            \/ last'.step = "broadcastFrame"
            \/ last'.step = "connection" /\ last'.bf.iter = {c}

\* C1 (amended): latestFrame is set exactly after the first broadcastFrame
\* call.  For a connection accepted while it is set, the handler adds the
\* viewer to the registry and calls send() on it with the current
\* latestFrame in the same step, and the viewer is still registered when the
\* handler returns exactly when that send() did not throw.  A viewer accepted
\* before any broadcast is registered and nothing is sent to it until the
\* next broadcastFrame.
C1_LateJoin ==
    /\ [](C1_Handler /\ ((latestFrame # NoFrame) <=> (bcasts > 0)))
    /\ [][C1_SilentUntilBroadcast]_vars

\* A late joiner that got the frame of the second broadcast and stays registered.
C1_Witness ==
    /\ last.step = "connection"
    /\ latestFrame.seq = 2
    /\ \E c \in clients : last.bf.tried = {c} /\ sent[c] = 2

(* ------------------------------- C2 ------------------------------------ *)
\* C2: isActive never goes from true to false in a step other than the
\* return of stop(); in particular no sendFrame call (forwarded, skipped,
\* invalid format or throwing) changes it.
C2_ActiveUntilStop ==
    [][(isActive /\ ~isActive') => last'.step = "stop"]_vars

\* A sendFrame call whose conversion threw has returned, the one before it
\* was counted too, and the manager is still active.
C2_Witness ==
    /\ last.step = "sendFrame"
    /\ last.note = "error"
    /\ performance.framesDropped = 1
    /\ performance.framesReceived = 2
    /\ isActive

(* ------------------------------- C3 ------------------------------------ *)
\* C3: no broadcastFrame call lets an exception escape to its caller,
\* whatever the registry holds and whichever send() calls throw.
C3_BroadcastNeverThrows ==
    last.step = "broadcastFrame" => ~last.threw /\ last.success

\* A broadcast to two viewers in which no send succeeded: one send() threw
\* and the other transport was not OPEN, or both sends threw.
C3_Witness ==
    /\ last.step = "broadcastFrame"
    /\ Cardinality(last.bf.pre) = 2
    /\ last.bf.sendThrew # {}
    /\ last.bf.deadClients = last.bf.pre
    /\ ~last.threw

(* ------------------------------- C4 ------------------------------------ *)
\* The registered transports that are not OPEN or whose send() throws.
C4_Dead(bf) == bf.sendThrew \cup {c \in bf.pre : readyState[c] # "OPEN"}

\* C4: the loop of broadcastFrame leaves the registry as it found it, the
\* collected dead clients are exactly the registered transports that are
\* not OPEN or whose send() threw, and on return the registry is the
\* pre-call registry minus exactly those.
C4_CleanupAfterIteration ==
    (last.step = "broadcastFrame" /\ last.bf.pre # {}) =>
        /\ last.bf.iter = last.bf.pre
        /\ last.bf.deadClients = C4_Dead(last.bf)
        /\ clients = last.bf.pre \ C4_Dead(last.bf)

\* A broadcast to two viewers that removed one of them and kept the other.
C4_Witness ==
    /\ last.step = "broadcastFrame"
    /\ Cardinality(last.bf.pre) = 2
    /\ Cardinality(last.bf.deadClients) = 1
    /\ Cardinality(clients) = 1

(* ------------------------------- C5 ------------------------------------ *)
\* C5: whenever send() is called on a transport with a frame, in the
\* connection handler or in broadcastFrame, no frame broadcast later than
\* that frame has been sent on the transport before.
C5_SessionOrder ==
    [][\A c \in last'.bf.tried : sent[c] <= last'.bf.frame.seq]_vars

\* A viewer that joined late, got the frame of the first broadcast, and is
\* now sent the frame of the third.
C5_Witness ==
    /\ last.step = "broadcastFrame"
    /\ last.bf.frame.seq = 3
    /\ \E c \in last.bf.tried : sent[c] = 3 /\ c \in clients

(* ------------------------------- C6 ------------------------------------ *)
\* The slot holds the argument of the most recent broadcastFrame call (the
\* n-th call is handed the frame whose seq is n).
C6_LatestWins ==
    /\ bcasts > 0 => latestFrame.seq = bcasts
    /\ bcasts = 0 => latestFrame = NoFrame

\* C6: the slot always holds the argument of the most recent broadcastFrame
\* call, and a frame is never sent on a transport on which it has been sent
\* before: every send() is of a frame newer than all sent there so far.
C6_SingleSlot ==
    /\ []C6_LatestWins
    /\ [][\A c \in last'.bf.tried : sent[c] < last'.bf.frame.seq]_vars

\* The send() of the second frame threw on a viewer that had been sent the
\* first: the slot holds the second frame and the viewer is gone.
C6_Witness ==
    /\ last.step = "broadcastFrame"
    /\ latestFrame.seq = 2
    /\ \E c \in last.bf.sendThrew : sent[c] = 2 /\ c \notin clients

(* ------------------------------- C7 ------------------------------------ *)
\* The counters after one more frame at time t, as updateFrameStats
\* (stream-server.js 430-439) leaves them.
C7_Counted(fs, t) ==
    IF t - fs.lastFpsUpdate >= 1000
    THEN [fps |-> fs.frameCount + 1, frameCount |-> 0, lastFpsUpdate |-> t]
    ELSE [fps |-> fs.fps, frameCount |-> fs.frameCount + 1,
          lastFpsUpdate |-> fs.lastFpsUpdate]

\* C7: a broadcastFrame call does not throw, stores its argument in
\* latestFrame and counts the frame in frameCount, fps and lastFpsUpdate in
\* the same way whether the registry is empty or not.
C7_EmptyRegistry ==
    [][last'.step = "broadcastFrame" =>
          /\ ~last'.threw
          /\ latestFrame' = [seq |-> bcasts', bytes |-> last'.bf.frame.bytes]
          /\ latestFrame' = last'.bf.frame
          /\ frameStats' = C7_Counted(frameStats, now)
          /\ (clients = {} => clients' = {} /\ sent' = sent)]_vars

\* A broadcast with no viewer registered that closed an fps window in which
\* two frames were counted.
C7_Witness ==
    /\ last.step = "broadcastFrame"
    /\ last.bf.pre = {}
    /\ clients = {}
    /\ frameStats.fps = 2
    /\ frameStats.lastFpsUpdate = now
    /\ latestFrame.seq = 2

(* ------------------------------- C8 ------------------------------------ *)
\* C8: every start() call on an active manager returns success in the same
\* step and changes nothing of the manager or of its server: no server is
\* created, no port is bound, isActive, streamingServer and the counters
\* keep their values, and no call is left in flight.
C8_StartWhenActive ==
    [][\A s \in Slots :
          (isActive /\ StartCall(s)) =>
              /\ last'.step = "start" /\ last'.success
              /\ UNCHANGED <<srvVars, mgrVars, slots, now>>]_vars

\* start() has returned "already active" on a manager that has forwarded a
\* frame to a registered viewer.
C8_Witness ==
    /\ last.step = "start"
    /\ last.note = "already"
    /\ isActive
    /\ srvState = "listening"
    /\ clients # {}
    /\ performance.framesReceived > 0

(* ------------------------------- C9 ------------------------------------ *)
\* C9: every stop() call on a manager on which start() was never called
\* returns success in the same step and changes nothing: no server is
\* closed, no driver call is made, counters and configuration keep their
\* values.
C9_StopNeverStarted ==
    [][\A s \in Slots :
          (~started /\ StopCall(s)) =>
              /\ last'.step = "stop" /\ last'.success
              /\ ~last'.rel.drvCalled /\ ~last'.rel.srvCalled
              /\ UNCHANGED <<srvVars, mgrVars, slots, now>>]_vars

\* stop() has returned on a manager that was never started.
C9_Witness ==
    /\ last.step = "stop"
    /\ last.success
    /\ ~started
    /\ ~isActive

(* ------------------------------- C10 ----------------------------------- *)
\* C10: whenever a stop() call on an active manager returns, isActive is
\* false and the result is success, whatever the two release steps did; the
\* server's stop() was called, and on the node-virtualcam backend the
\* driver's stop() was called too, whether or not the other one threw.
C10_StopAlwaysStops ==
    (last.step = "stop" /\ last.note # "notActive") =>
        /\ ~isActive
        /\ last.success
        /\ frameBuffer = {}
        /\ last.rel.srvCalled
        /\ (virtualCamType = "node-virtualcam" => last.rel.drvCalled)

\* A stop() in which both the driver's stop() and the server's stop() threw.
C10_Witness ==
    /\ last.step = "stop"
    /\ last.rel.drvThrew
    /\ last.rel.srvThrew
    /\ ~isActive
    /\ last.success

(* ------------------------------- C11 ----------------------------------- *)
\* C11: whenever a stop() call of VirtualCameraManager on an active manager
\* returns, isActive is false, for every backend type.
\* It fails on the node-virtualcam backend when virtualCam.stop() throws: the
\* catch block of stopNodeVirtualCam returns before this.isActive = false.
C11_VcmStopAlwaysStops ==
    (last.step = "stop" /\ last.note # "notActive") => ~isActive

(* ------------------------------- C12 ----------------------------------- *)
\* C12: whenever start() of OptimizedVirtualCameraManager has returned
\* success = false, the manager is idle: isActive is false, no streaming
\* server is retained or listening, and no native driver is running.
\* It fails on the node-virtualcam backend when the driver has started and
\* then no candidate port can be bound: startNodeVirtualCam returns the
\* failure without stopping the driver or dropping this.virtualCam.
C12_FailedStartIsIdle ==
    (last.step = "start" /\ ~last.success) =>
        /\ ~isActive
        /\ ~streamingServer
        /\ srvState # "listening"
        /\ ~drvRunning

(* ------------------------------- C13 ----------------------------------- *)
\* C13: a sendFrame call on a manager that is not active returns
\* success = false with the "not active" error, throws nothing, and changes
\* no state: the counters (framesReceived, lastFrameTime, adaptiveFps), the
\* frame buffer, the relay (latestFrame, registry, frame counters) and the
\* manager's other fields keep their values.
C13_InactiveSubmit ==
    [][(~isActive /\ last'.step = "sendFrame") =>
          /\ ~last'.success /\ last'.note = "notActive" /\ ~last'.threw
          /\ UNCHANGED <<performance, frameBuffer, latestFrame, clients, frameStats,
                         sent, isActive, fps, streamingServer, virtualCam>>]_vars

\* sendFrame has been refused on a manager that was stopped after it had
\* forwarded a frame.
C13_Witness ==
    /\ last.step = "sendFrame"
    /\ last.note = "notActive"
    /\ ~isActive
    /\ performance.framesReceived = 1
    /\ latestFrame # NoFrame

(* ------------------------------- C14 ----------------------------------- *)
\* C14: a sendFrame call on an active manager whose rate test says skip
\* returns success = true with skipped = true; the frame is not broadcast
\* and not buffered, lastFrameTime, adaptiveFps and the relay's latestFrame
\* keep their values, and of the counters only framesReceived changes, by
\* one.
C14_Skip ==
    [][(isActive /\ last'.step = "sendFrame"
          /\ (now - performance.lastFrameTime) * performance.adaptiveFps < 800) =>
          /\ last'.success /\ last'.skipped /\ ~last'.threw
          /\ last'.bf = NoBroadcast
          /\ performance' = [performance EXCEPT !.framesReceived = @ + 1]
          /\ UNCHANGED <<frameBuffer, srvVars, isActive, fps, streamingServer,
                         virtualCam>>]_vars

\* A frame has been skipped FastGap ms after the first one was forwarded.
C14_Witness ==
    /\ last.step = "sendFrame"
    /\ last.skipped
    /\ performance.framesReceived = 2
    /\ performance.lastFrameTime + FastGap = now
    /\ latestFrame.seq = 1

(* ------------------------------- C15 ----------------------------------- *)
\* The time of the last forwarded frame: forwarded frames are buffered
\* under their time, and the buffer keeps the latest of them (0: none yet).
LastForwardedAt ==
    IF frameBuffer = {} THEN 0
    ELSE (CHOOSE e \in frameBuffer : \A o \in frameBuffer : o.id <= e.id).id

\* C15: on an active manager a submitted frame that is not rejected as
\* malformed is forwarded if and only if the time since the last forwarded
\* frame is at least 0.8 * (1000 / adaptiveFps), and is skipped otherwise.
\* It fails after a frame that passed the rate test and was then rejected
\* (invalid format, or the conversion threw): sendFrame has already stored
\* its time in lastFrameTime, so a good frame that follows shortly is
\* skipped although nothing was forwarded within the threshold.
C15_ForwardIffElapsed ==
    [][(isActive /\ last'.step = "sendFrame"
          /\ last'.note \in {"forwarded", "skipped"}) =>
          ((last'.note = "forwarded") <=>
              ((now - LastForwardedAt) * performance.adaptiveFps >= 800))]_vars

(* ------------------------------- C16 ----------------------------------- *)
\* The stream is in its slow phase: the frame now submitted is one of the
\* first PhaseFrames, each SlowGap ms after the one before.
C16_SlowPhase == StillSlow /\ ticks < PhaseFrames

\* The stream is in its fast phase: PhaseFrames frames SlowGap ms apart
\* were followed by up to PhaseFrames frames FastGap ms apart.
C16_FastPhase ==
    /\ ticks >= PhaseFrames
    /\ ticks < 2 * PhaseFrames
    /\ now = StartTime + SlowGap * (PhaseFrames - 1) + FastGap * (ticks - PhaseFrames + 1)

C16_Step ==
    (last'.step = "sendFrame" /\ fps = DefaultFps) =>
        /\ C16_SlowPhase =>
              /\ ~last'.skipped
              /\ last'.note \notin {"invalidFormat", "error"} => last'.note = "forwarded"
        /\ (C16_FastPhase /\ ~last'.skipped) =>
              performance.lastFrameTime <= StartTime + SlowGap * (PhaseFrames - 1)
        /\ last'.note = "forwarded" =>
              /\ now - LastForwardedAt > 800 \div DefaultFps
              /\ now - performance.lastFrameTime > 800 \div DefaultFps

\* C16: with the rate configured to 30 fps the target stays 30.  Then each of
\* the first five frames of a stream paced 33 ms apart passes the rate test
\* and, unless it is malformed, is forwarded; of five frames that follow
\* 5 ms apart at most one passes it; and a frame is forwarded only when
\* more than 26 ms have elapsed since the last forwarded frame.
C16_PacedStream ==
    /\ [](fps = DefaultFps => performance.adaptiveFps = DefaultFps)
    /\ [][C16_Step]_vars

\* The tenth frame of the stream has been skipped: the first five were all
\* forwarded and none of the five that followed 5 ms apart was.
C16_Witness ==
    /\ last.step = "sendFrame"
    /\ last.skipped
    /\ fps = DefaultFps
    /\ performance.framesReceived = 2 * PhaseFrames
    /\ ticks = 2 * PhaseFrames - 1
    /\ now = StartTime + SlowGap * (PhaseFrames - 1) + FastGap * PhaseFrames
    /\ bcasts = PhaseFrames
    /\ latestFrame.seq = PhaseFrames
    /\ performance.lastFrameTime = StartTime + SlowGap * (PhaseFrames - 1)

(* ------------------------------- C17 ----------------------------------- *)
\* C17: when the last of the 1000 frames of a steady stream paced at a
\* quarter of the target interval has been submitted, the number of frames
\* forwarded is within 10% of a quarter of them (between 22.5% and 27.5%).
C17_SteadyFraction ==
    performance.framesReceived = SteadyFrames =>
        /\ 9 * SteadyFrames <= 40 * bcasts
        /\ 40 * bcasts <= 11 * SteadyFrames

\* The whole stream has been submitted at the default rate, and exactly one
\* frame in four was forwarded.
C17_Witness ==
    /\ performance.framesReceived = SteadyFrames
    /\ fps = DefaultFps
    /\ 4 * bcasts = SteadyFrames
    /\ last.step = "sendFrame"

(* ------------------------------- C18 ----------------------------------- *)
\* C18: in every reachable state of OptimizedVirtualCameraManager the target
\* rate adaptiveFps lies within [15, 60].
\* It fails after setFPS with an argument below 15: setFPS clamps to
\* [10, 60] and copies the result into adaptiveFps.
C18_TargetClamped ==
    /\ MinAdaptiveFps <= performance.adaptiveFps
    /\ performance.adaptiveFps <= MaxAdaptiveFps

(* ------------------------------- C19 ----------------------------------- *)
\* C19: a frame forwarded more than 1000/15 ms after the frame before it,
\* while the target rate is above the floor of 15, lowers the target rate;
\* a frame forwarded while the target rate is below the configured fps does
\* not lower it.
\* The first half fails: updatePerformanceMetrics measures the time since
\* lastFrameTime, which sendFrame has just set to now, so the measured time
\* is 0 and the target is pulled toward the configured fps only.
C19_AdaptsToPace ==
    [][(last'.step = "sendFrame" /\ last'.note = "forwarded") =>
          /\ (/\ performance.lastFrameTime > 0
              /\ (now - performance.lastFrameTime) * MinAdaptiveFps > 1000
              /\ performance.adaptiveFps > MinAdaptiveFps) =>
                 performance'.adaptiveFps < performance.adaptiveFps
          /\ performance.adaptiveFps < fps =>
                 performance'.adaptiveFps >= performance.adaptiveFps]_vars

(* ------------------------------- C20 ----------------------------------- *)
\* C20: when start() has found port 8080 taken and the listen on a later
\* candidate port succeeds, start() returns success in that step, the relay
\* listens on that candidate, which is not 8080, the manager is active, and
\* the streamUrl of the result names the port the relay is bound to.
C20_PortFallback ==
    [][\A s \in Slots :
          (/\ slots[s].op = "start" /\ slots[s].pc = "listen" /\ slots[s].idx > 0
           /\ slots'[s].op = "idle"
           /\ srvState' = "listening") =>
              /\ last'.step = "start" /\ last'.success
              /\ port' = DefaultPort + slots[s].idx
              /\ port' # DefaultPort
              /\ last'.urlPort = port'
              /\ isActive' /\ streamingServer']_vars

\* start() has succeeded on 8082 after 8080 and 8081 were found taken.
C20_Witness ==
    /\ last.step = "start"
    /\ last.success
    /\ srvState = "listening"
    /\ port = DefaultPort + 2
    /\ last.urlPort = DefaultPort + 2
    /\ isActive

(* ------------------------------- C21 ----------------------------------- *)
\* C21: a start() that has found 8080 and every port of the fallback
\* sequence 8081..8084 taken still succeeds, on a port the system assigns,
\* and leaves the manager active with its relay listening.
\* It fails: startStreamingServer has no further candidate after 8084 and
\* throws, and start() returns success=false.
C21_EphemeralFallback ==
    (last.step = "start" /\ last.note = "noPort") =>
        /\ last.success
        /\ isActive
        /\ srvState = "listening"

(* ------------------------------- C22 ----------------------------------- *)
\* C22: the step in which the relay starts to report isRunning is the listen
\* callback, and it leaves in this.port the port the socket was bound to
\* (the port of server.address() for the port passed to listen); this.port
\* does not change while the relay goes on reporting isRunning; and whenever
\* it reports isRunning, StreamingServer.getStatus(), the manager's
\* getStatus() and getStreamUrl() all give this.port.
C22_Reported ==
    (ServerStatus.isRunning /\ streamingServer) =>
        /\ ServerStatus.port = port
        /\ getStatus.streaming.port = port
        /\ getStatus.streaming.urlPort = port
        /\ getStreamUrl = port

C22_Step ==
    /\ (~IsRunning /\ IsRunning') =>
          /\ \E s \in Slots : slots[s].pc = "listen" /\ slots'[s].op = "idle"
          /\ port' = ActualPort(port)
    /\ (IsRunning /\ IsRunning') => port' = port

C22_ReportsBoundPort == [] C22_Reported /\ [][C22_Step]_vars

\* The relay runs on 8083 and the manager reports that port.
C22_Witness ==
    /\ IsRunning
    /\ isActive
    /\ port = DefaultPort + 3
    /\ getStreamUrl = DefaultPort + 3
    /\ getStatus.streaming.urlPort = DefaultPort + 3

(* ------------------------------- C23 ----------------------------------- *)
\* C23: the synchronous part of StreamingServer.stop() calls close() on
\* every registered transport (none of them is OPEN afterwards), leaves the
\* registry empty and the server not listening; the registry stays empty
\* while the server closes and once it is closed; the promise of stop()
\* resolves with success and never rejects, on a listening server (which is
\* then closed) and on one that was never started.
C23_Sync ==
    (\E s \in Slots : slots[s].op = "idle" /\ slots'[s].op = "server.stop") =>
        /\ \A c \in clients : readyState[c] = "OPEN" => readyState'[c] = "CLOSING"
        /\ \A c \in clients : readyState'[c] # "OPEN"
        /\ clients' = {}
        /\ ~IsRunning'

C23_Resolved ==
    last'.step = "server.stop" =>
        /\ last'.success
        /\ ~last'.threw
        /\ \E s \in Slots : slots[s].op = "server.stop" /\ slots'[s].op = "idle"
        /\ srvState = "closing" => (srvState' = "closed" /\ clients' = {})

C23_StopClosesAll ==
    /\ [](srvState \in {"closing", "closed"} => (clients = {} /\ ~IsRunning))
    /\ [][C23_Sync /\ C23_Resolved]_vars

\* stop() has resolved on a server that had been listening, had broadcast a
\* frame and had a viewer, whose transport is now closed.
C23_Witness ==
    /\ last.step = "server.stop"
    /\ last.success
    /\ srvState = "closed"
    /\ bcasts > 0
    /\ \E c \in Clients : readyState[c] = "CLOSED" /\ sent[c] > 0

\* stop() has resolved on a server that was never started.
C23_NeverStarted ==
    /\ last.step = "server.stop"
    /\ last.success
    /\ srvState = "created"

(* ------------------------------- C24 ----------------------------------- *)
\* C24: a close or error event of a viewer session leaves the registry as
\* it was without that session, whether the session was still registered or
\* had been removed before (by the other event or by broadcastFrame), and
\* changes nothing of any other session; a session is registered only by
\* its own connection event, so that no removal is ever undone; a closed
\* session is never registered.
C24_Event(c) ==
    /\ last'.step = "other"
    /\ slots' = slots
    /\ readyState'[c] # readyState[c]

C24_Step ==
    /\ \A c \in Clients :
          C24_Event(c) =>
             /\ clients' \in {clients, clients \ {c}}
             /\ readyState'[c] = "CLOSED" => clients' = clients \ {c}
             /\ \A d \in Clients \ {c} :
                   /\ readyState'[d] = readyState[d]
                   /\ sent'[d] = sent[d]
                   /\ (d \in clients') <=> (d \in clients)
    /\ \A c \in clients' \ clients :
          readyState[c] = "NONE" /\ last'.step = "connection"

C24_IdempotentRemoval ==
    /\ [](\A c \in clients : readyState[c] \in {"OPEN", "CLOSING"})
    /\ [][C24_Step]_vars

\* The close event of a session that had already been removed, while
\* another session is registered.
C24_Witness ==
    /\ last.step = "other"
    /\ \E c \in Clients :
          /\ readyState[c] = "CLOSED"
          /\ c \notin clients
          /\ \E d \in clients : d < c /\ readyState[d] = "OPEN"

(* ------------------------------- C25 ----------------------------------- *)
\* C25: setResolution(w, h) on a manager that is not active returns success
\* and stores <<w, h>>; on an active manager it returns an error and leaves
\* the resolution as it was; nothing else changes the resolution; and a
\* start() that constructs the native driver passes it the resolution
\* configured at that moment.
C25_Step ==
    /\ last'.step = "setResolution" =>
          /\ isActive' = isActive
          /\ IF isActive
             THEN ~last'.success /\ resolution' = resolution
             ELSE last'.success /\ resolution' = last'.arg
    /\ resolution' # resolution => (last'.step = "setResolution" /\ ~isActive)
    /\ (\E s \in Slots : slots[s].op = "idle" /\ slots'[s].pc = "drvStart") =>
          /\ virtualCam'
          /\ drvConfig'.width = resolution[1]
          /\ drvConfig'.height = resolution[2]
    /\ drvConfig' # drvConfig =>
          /\ drvConfig'.width = resolution[1]
          /\ drvConfig'.height = resolution[2]

C25_Resolution == [][C25_Step]_vars

\* A resolution was set while idle, the driver was started with it, and a
\* setResolution with another resolution on the active manager was refused.
C25_Witness ==
    /\ last.step = "setResolution"
    /\ ~last.success
    /\ isActive
    /\ drvRunning
    /\ resolution # DefaultResolution
    /\ last.arg # resolution
    /\ drvConfig.width = resolution[1]
    /\ drvConfig.height = resolution[2]

(* ------------------------------- C26 ----------------------------------- *)
\* C26: on every machine both detections complete without throwing and give
\* the native-driver kind, with the binding attached, exactly when the
\* binding loads; otherwise the capture-tool kind, with no binding, exactly
\* when the file system probe does not fail and one of the installation
\* paths the detection knows exists; otherwise the fallback kind with no
\* binding.
C26_Result(known, obsType, fallbackType) ==
    /\ ~last.threw
    /\ last.note = virtualCamType
    /\ last.note \in {"node-virtualcam", obsType, fallbackType}
    /\ (last.note = "node-virtualcam") <=> host.binding
    /\ (last.arg = <<TRUE>>) <=> host.binding
    /\ (last.note = obsType) <=>
          (~host.binding /\ ~host.probeFails /\ host.paths \cap known # {})
    /\ (last.note = fallbackType) <=>
          (~host.binding /\ (host.probeFails \/ host.paths \cap known = {}))

C26_Detection ==
    /\ last.step = "detectVirtualCameraEnvironment" =>
          C26_Result(EnvironmentPaths, "obs-virtual-cam", "none")
    /\ last.step = "initializeVirtualCam" =>
          C26_Result(OptimizedPaths, "obs-optimized", "stream-only")

\* The binding does not load, the probe works and finds OBS installed.
C26_Witness ==
    /\ last.step = "detectVirtualCameraEnvironment"
    /\ ~host.binding
    /\ ~host.probeFails
    /\ "mac" \in host.paths
    /\ virtualCamType = "obs-virtual-cam"
    /\ last.arg = <<FALSE>>

(* ------------------------------- C27 ----------------------------------- *)
\* C27: when stop() has torn an active manager down, framesReceived,
\* framesDropped, the adaptive rate and lastFrameTime have the values the
\* constructor gives them.
\* It fails: stop() assigns isActive and clears frameBuffer, and leaves
\* this.performance as the frames of the stopped session left it.
C27_StopResetsCounters ==
    (last.step = "stop" /\ last.success /\ last.note = "stopped") =>
        /\ performance.framesReceived = NewPerformance.framesReceived
        /\ performance.framesDropped = NewPerformance.framesDropped
        /\ performance.adaptiveFps = NewPerformance.adaptiveFps
        /\ performance.lastFrameTime = NewPerformance.lastFrameTime

(* ------------------------------- C28 ----------------------------------- *)
\* C28: with start() calls overlapping, every start() that returns success
\* returns a streamUrl naming the relay's port, and once a call has returned
\* success (the manager is active) while the relay's listen is still
\* pending, that relay gets bound to the port named: its port does not
\* change and its listen does not fail.
\* It fails when port 8080 is taken: the second call finds the relay object
\* of the first, returns success with its port at once, and the first call
\* then moves on to the next candidate port.
C28_Step ==
    /\ (last'.step = "start" /\ last'.success /\ last'.note = "started") =>
          last'.urlPort = port'
    /\ (isActive /\ srvState = "pending") =>
          /\ port' = port
          /\ srvState' \in {"pending", "listening"}

C28_OverlappingStarts == [][C28_Step]_vars

(* ------------------------------- C29 ----------------------------------- *)
\* C29: a sendFrame call during which send() threw on some viewer returns
\* success (it is a forwarded frame, not an error, and is not counted as
\* dropped), the viewers whose send() threw are no longer registered, and
\* every other registered viewer whose transport is open has been sent the
\* frame and is still registered.
C29_FailureStaysLocal ==
    (last.step = "sendFrame" /\ last.bf.sendThrew # {}) =>
        /\ last.success
        /\ ~last.threw
        /\ last.note = "forwarded"
        /\ performance.framesDropped = 0
        /\ clients \cap last.bf.sendThrew = {}
        /\ latestFrame = last.bf.frame
        /\ \A c \in last.bf.pre \ last.bf.sendThrew :
              readyState[c] = "OPEN" =>
                 /\ c \in last.bf.tried
                 /\ sent[c] = last.bf.frame.seq
                 /\ c \in clients

\* The second frame was forwarded to two viewers: send() threw on one, and
\* the other got the frame.
C29_Witness ==
    /\ last.step = "sendFrame"
    /\ last.bf.frame.seq = 2
    /\ Cardinality(last.bf.pre) = 2
    /\ Cardinality(last.bf.sendThrew) = 1
    /\ \E c \in clients : sent[c] = 2 /\ readyState[c] = "OPEN"

(* ------------------------------- C30 ----------------------------------- *)
\* start(), stop() and sendFrame() return a result object and let no
\* exception escape, and a result with success=false carries an error.
C30_NeverThrows ==
    last.step \in {"start", "stop", "sendFrame"} =>
        /\ ~last.threw
        /\ ~last.success => last.note \in {"error", "noPort", "notActive", "invalidFormat"}

\* C30: start(), stop() and sendFrame() never throw, every failure is
\* reported as success=false with an error, and a start() that has failed
\* for lack of a port leaves nothing behind that a later start() would find
\* in its way: the manager is not active, holds no relay, and no native
\* driver is running.
\* The last part fails on the node-virtualcam backend: the driver that the
\* failed attempt has started is left running.
C30_FailureLeavesCleanState ==
    /\ C30_NeverThrows
    /\ (last.step = "start" /\ last.note = "noPort") =>
          /\ ~last.success
          /\ ~isActive
          /\ ~streamingServer
          /\ ~IsRunning
          /\ ~drvRunning

\* C31: every close of a viewer socket schedules one more connection attempt,
\* after the backoff delay of the failures counted since the last open.
C31_Closed == \E k \in Sockets : page[k] \in Alive /\ page'[k] \notin Alive

C31_Step ==
    C31_Closed =>
        /\ page'.timers = page.timers + 1
        /\ page'.currentReconnectAttempt = page.currentReconnectAttempt + 1
        /\ page'.delay = BackoffDelay(page'.currentReconnectAttempt)

C31_EveryCloseReconnects == [][C31_Step]_vars

\* C32: a page whose socket is open and that has received no frame shows the
\* loading message and not the error message.
C32_WaitingWhileOpen ==
    (page.ws = "OPEN" /\ page.frameCount = 0) => (page.loading /\ ~page.error)

\* C33: StreamingServer.getStatus() changes nothing and reports the size of
\* the registry and the fps figure; the fps figure is the number of
\* broadcasts counted when the last window was closed, a window is closed
\* only by a broadcast that comes at least one second after the previous
\* closing, and only then is the counter reset.
C33_ReadOnly ==
    (last'.step = "getStatus") =>
        /\ UNCHANGED <<now, ticks, srvVars, mgrVars, slots, started, drvConfig>>
        /\ last'.arg[1].clients = Cardinality(clients)
        /\ last'.arg[1].fps = frameStats.fps
        /\ last'.arg[1].port = port
        /\ last'.arg[1].isRunning = (srvState = "listening")

C33_Window ==
    (frameStats' # frameStats) =>
        /\ last'.step = "broadcastFrame"
        /\ IF now - frameStats.lastFpsUpdate >= FpsWindowMs
           THEN /\ frameStats'.fps = frameStats.frameCount + 1
                /\ frameStats'.frameCount = 0
                /\ frameStats'.lastFpsUpdate = now
           ELSE /\ frameStats'.fps = frameStats.fps
                /\ frameStats'.frameCount = frameStats.frameCount + 1
                /\ frameStats'.lastFpsUpdate = frameStats.lastFpsUpdate

C33_StatusSnapshot == [][C33_ReadOnly /\ C33_Window]_vars

\* A status taken with one viewer registered, after a window that counted
\* two broadcasts was closed.
C33_Witness ==
    /\ last.step = "getStatus"
    /\ last.arg[1].fps = 2
    /\ last.arg[1].clients = 1
    /\ frameStats.frameCount = 0

\* C34: while the manager is active and no stop() is in flight, it holds a
\* relay and that relay is listening.
C34_ActiveHasRelay ==
    (isActive /\ \A s \in Slots : slots[s].op # "stop") =>
        (streamingServer /\ srvState = "listening")

\* C35: once a start() has returned success, the manager is active whenever
\* nothing is in flight, unless a stop() has been issued since.  Stated for
\* a start() that returned in the step in which it was issued (the manager
\* was already active), so that every stop() in flight is an earlier one: if
\* the next step does not issue a stop(), it does not leave the manager idle
\* and inactive.
C35_StopIssued ==
    \/ \E s \in Slots : slots[s].op = "idle" /\ slots'[s].op = "stop"
    \/ last'.step = "stop" /\ slots' = slots

C35_Step ==
    (last.step = "start" /\ last.success /\ last.note = "already" /\ ~C35_StopIssued) =>
        ~(Quiet' /\ ~isActive')

C35_StartStaysActive == [][C35_Step]_vars

\* C36: with the configured rate between 15 and 60, the adaptive rate is the
\* configured one, and no sendFrame changes it.
C36_InRange == fps >= MinAdaptiveFps /\ fps <= MaxAdaptiveFps

C36_Step ==
    (last'.step = "sendFrame" /\ C36_InRange) =>
        performance'.adaptiveFps = performance.adaptiveFps

C37_Gone(c) == readyState[c] # "NONE" /\ c \notin clients

C37_Removal ==
    /\ \A c \in Clients :
          /\ (readyState'[c] = "CLOSED" /\ readyState[c] # "CLOSED") => c \notin clients'
          /\ OnError(c) => c \notin clients'
    /\ (last'.step = "broadcastFrame" /\ ~last'.threw) =>
          last'.bf.deadClients \cap clients' = {}
    /\ (srvState = "listening" /\ srvState' = "closing") => clients' = {}

C37_NothingSent ==
    \A c \in Clients :
       C37_Gone(c) =>
          /\ c \notin clients'
          /\ sent'[c] = sent[c]
          /\ c \notin last'.bf.tried
          /\ c \notin last'.bf.stats

C37_NoFrameAfterRemoval == [][C37_Removal /\ C37_NothingSent]_vars

\* A broadcast reaches a registered viewer while another session, which
\* had received an earlier frame, is closed and out of the registry.
C37_Witness ==
    /\ last.step = "broadcastFrame"
    /\ \E c \in Clients, d \in clients :
          /\ readyState[c] = "CLOSED"
          /\ c \notin clients
          /\ sent[c] > 0
          /\ d \in last.bf.tried
          /\ sent[d] > sent[c]

\* C38: a valid frame submitted right after a start() has returned success
\* is forwarded, not skipped (time has passed since any earlier frame).
C38_Step ==
    (last.step = "start" /\ last.success /\ last.note = "started"
        /\ now > performance.lastFrameTime
        /\ last'.step = "sendFrame") =>
            (last'.note = "forwarded" /\ ~last'.skipped)

C38_FirstFrameForwarded == [][C38_Step]_vars

\* C39: a sendFrame rejected for its data format leaves lastFrameTime and
\* the relay's latest frame as they were.
C39_Step ==
    (last'.step = "sendFrame" /\ last'.note = "invalidFormat") =>
        /\ performance'.lastFrameTime = performance.lastFrameTime
        /\ latestFrame' = latestFrame

C39_RejectedFrameKeepsSlot == [][C39_Step]_vars

\* C40: a start() that failed because no candidate port could be bound
\* returns an error that carries the message of the last bind failure.
C40_CauseReported ==
    (last.step = "start" /\ last.note = "noPort") =>
        last.arg = <<ListenError(DefaultPort + NumPorts - 1).message>>

====
